---- MODULE Spec2Model ----
(***************************************************************************)
(* omni-chat: the model response adapter (lib/ai.ts), the coalesced        *)
(* authentication requests (lib/auth.ts), the conversation relay           *)
(* (lib/api.ts), the chat store and the App component's handlers as state  *)
(* machines.                                                               *)
(*                                                                         *)
(* Text is a sequence of characters; string concatenation is \o.           *)
(***************************************************************************)
EXTENDS Integers, Sequences, FiniteSets, TLC

(***************************************************************************)
(* Bounds                                                                  *)
(***************************************************************************)
\* longest upstream stream, counted in event frames (or SDK chunks)
MaxFrames == 3

(***************************************************************************)
(* Text and records of lib/ai.ts                                           *)
(***************************************************************************)
Chars == {"a", "b"}

\* 'I apologize, but I encountered an error processing your request.'
FallbackContent == <<"I apologize, but I encountered an error processing your request.">>

\* the optional error field of AIResponse / AIStreamResponse when it is unset
NoError == "<absent>"

\* values a try block can throw: Error instances carry a message, any other
\* thrown value does not.  kind tells where the failure comes from: "upstream"
\* (the request, its status, its body or a read failed) or "parse" (a received
\* payload could not be parsed or lacks the expected fields)
NoFailure == [kind |-> "none", isError |-> FALSE, message |-> ""]
NetworkError == [kind |-> "upstream", isError |-> TRUE, message |-> "Failed to fetch"]
NonErrorThrow == [kind |-> "upstream", isError |-> FALSE, message |-> ""]
StatusError ==
  [kind |-> "upstream", isError |-> TRUE, message |-> "Deepseek API error: Internal Server Error"]
NoBodyError == [kind |-> "upstream", isError |-> TRUE, message |-> "Response body is not readable"]
BlockedError == [kind |-> "upstream", isError |-> TRUE, message |-> "Response was blocked"]
SyntaxError == [kind |-> "parse", isError |-> TRUE, message |-> "Unexpected token in JSON"]
TypeError == [kind |-> "parse", isError |-> TRUE, message |-> "Cannot read properties of undefined"]

\* error instanceof Error ? error.message : 'Unknown error occurred'
ErrorMessage(e) == IF e.isError THEN e.message ELSE "Unknown error occurred"

\* a catch block that lets the error escape
CatchResponse_Rethrow(e) ==
  [content |-> <<>>, error |-> NoError, threw |-> TRUE]

\* the object literal of every catch block of the generate*Response functions
CatchResponse(e) ==
  [content |-> FallbackContent, error |-> ErrorMessage(e), threw |-> FALSE]

\* a catch block whose snapshot is not terminal
CatchSnapshot_NotDone(e) ==
  [content |-> FallbackContent, done |-> FALSE, error |-> ErrorMessage(e)]

\* a catch block that drops the error message
CatchSnapshot_NoError(e) ==
  [content |-> FallbackContent, done |-> TRUE, error |-> NoError]

\* the object literal yielded by the catch blocks of the two generators
CatchSnapshot(e) ==
  [content |-> FallbackContent, done |-> TRUE, error |-> ErrorMessage(e)]

Snapshot(content, done) == [content |-> content, done |-> done, error |-> NoError]

ModelIds == {"gpt-3.5-turbo", "gemini", "deepseek-chat", "unlisted-model"}

(***************************************************************************)
(* The byte stream of the event-frame provider.  A byte token is one of:   *)
(*   "data", ": "   the two halves of the prefix 'data: '                  *)
(*   "{", "}"       the JSON text around the delta's content, i.e.         *)
(*                  {"choices":[{"delta":{"content":"  and  "}}]}          *)
(*   "a", "b"       a character of the delta's content                     *)
(*   "[DONE]"       the payload of the provider's end marker frame         *)
(*   ":"            a comment line (": keep-alive")                        *)
(*   " "            white space                                            *)
(*   "\n"           the frame delimiter                                    *)
(***************************************************************************)
NL == "\n"
DataPrefix == <<"data", ": ">>

DeltaFrame(d) == DataPrefix \o <<"{">> \o d \o <<"}">>
EndMarkerFrame == DataPrefix \o <<"[DONE]">>
CommentFrame == <<":">>
BlankFrame == <<" ">>

\* the deltas one frame can carry ('' when the delta has no content key)
Deltas == {<<>>, <<"a">>, <<"b">>}

Frames == {DeltaFrame(d) : d \in Deltas} \cup {EndMarkerFrame, CommentFrame, BlankFrame}

RECURSIVE SeqsUpTo(_, _)
SeqsUpTo(S, n) ==
  IF n = 0 THEN {<<>>}
  ELSE LET shorter == SeqsUpTo(S, n - 1)
       IN  shorter \cup {Append(s, x) : s \in {t \in shorter : Len(t) = n - 1}, x \in S}

RECURSIVE Flatten(_)
Flatten(ss) == IF ss = <<>> THEN <<>> ELSE Head(ss) \o Flatten(Tail(ss))

\* the frames on the wire, each followed by a newline
Wire(frames) == Flatten([i \in 1..Len(frames) |-> Append(frames[i], NL)])

\* chunk.split('\n')
RECURSIVE Split(_)
Split(chunk) ==
  IF \A i \in 1..Len(chunk) : chunk[i] # NL THEN <<chunk>>
  ELSE LET i == CHOOSE j \in 1..Len(chunk) :
                  chunk[j] = NL /\ \A k \in 1..(j - 1) : chunk[k] # NL
       IN  <<SubSeq(chunk, 1, i - 1)>> \o Split(SubSeq(chunk, i + 1, Len(chunk)))

\* line.trim() !== ''
NonBlank(line) == \E i \in 1..Len(line) : line[i] # " "

\* chunk.split('\n').filter(line => line.trim() !== '')
Lines(chunk) == SelectSeq(Split(chunk), NonBlank)

\* line.startsWith('data: ')
StartsWithData(line) == Len(line) >= 2 /\ SubSeq(line, 1, 2) = DataPrefix

\* JSON.parse(line.slice(6)) followed by data.choices[0].delta.content || '':
\* the payload parses only when it is a whole JSON text
ParseDelta(line) ==
  LET payload == SubSeq(line, 3, Len(line))
      n == Len(payload)
  IN  IF /\ n >= 2
         /\ payload[1] = "{"
         /\ payload[n] = "}"
         /\ \A i \in 2..(n - 1) : payload[i] \in Chars
      THEN [ok |-> TRUE, content |-> SubSeq(payload, 2, n - 1)]
      ELSE [ok |-> FALSE, content |-> <<>>]

(***************************************************************************)
(* State                                                                   *)
(***************************************************************************)
VARIABLES
  call,                \* adapter: "generate" (generateAIResponse) or "stream" (streamAIResponse)
  model,               \* adapter: the model argument
  raw,                 \* adapter: the byte stream the event-frame upstream sends
  chunks,              \* adapter: the chunks the token-incremental upstream sends
  pos,                 \* adapter: how much of raw / chunks has been read
  accumulatedContent,  \* adapter: the generators' accumulator
  out,                 \* adapter: the snapshots yielded so far
  lines,               \* adapter: the lines of the current chunk still to be handled
  reply,               \* adapter: the completion the whole-response upstream returns
  splitRead,           \* adapter: some read ended inside a frame
  failure,             \* adapter: NoFailure, or the value the try block threw
  ret,                 \* adapter: what generateAIResponse returned
  pc                   \* adapter: position of the call

adapterVars == <<call, model, raw, chunks, pos, accumulatedContent, out, lines, reply, splitRead, failure, ret, pc>>

VARIABLES
  authRequest,         \* auth: the module's authRequest, 0 for null, else the request's number
  requests,            \* auth: the promise chains signIn / signUp have built, by number
  calls                \* auth: the calls of signIn / signUp and the promises they returned

authVars == <<authRequest, requests, calls>>

VARIABLES
  conversations,       \* relay: the last_message column of the conversations table
  messages,            \* relay: the rows of the messages table
  clock,               \* relay: the store's now()
  sends,               \* relay: the calls of sendMessage
  owner,               \* relay: the user_id column of the conversations table
  session,             \* relay: the user of the client's session (auth.uid()), or NoUser
  creates,             \* relay: the calls of createConversation
  user,                \* client: useChatStore.user, or NoUser
  isAuthenticated,     \* client: useChatStore.isAuthenticated
  chatConversations,   \* client: useChatStore.conversations
  currentConversation, \* client: useChatStore.currentConversation, or NoConversation
  chatMessages,        \* client: useChatStore.messages
  errorBanner,         \* client: the text of the error banner, "" when hidden
  pendingSets,         \* client: the store calls the running handler has still to make
  effectDue,           \* client: the currentConversation effect has to run
  channels,            \* client: the subscribed realtime channels
  cleanup,             \* client: the channel the effect's cleanup unsubscribes, 0 if none
  nextChan,            \* client: the channels made so far
  events,              \* client: INSERT payloads on their way to a channel's callback
  msgFetches,          \* client: the getMessages calls in flight
  convFetches,         \* client: the getConversations calls in flight
  newChats,            \* client: the handleNewChat calls awaiting createConversation
  userActions,         \* client: the sign-ins, clicks on a conversation and clicks on New Chat so far,
  loading,             \* App: the loading state of the sign-in form
  showAuthModal,       \* App: the sign-in form is shown
  authTimeout,         \* App: the handleAuth call whose timer is armed, 0 if none
  attempts,            \* App: the calls of handleAuth
  messageInput,        \* App: the text in the message box
  isSending,           \* App: the isSending state
  streamingContent,    \* App: the text shown with the typing indicator, <<>> when hidden
  handler,             \* App: the frame of the running handleSendMessage
  titles               \* relay: the title column of the conversations table

\* the part of the relay's state that sendMessage leaves alone
accessVars == <<owner, session, creates>>

relayVars == <<conversations, messages, clock, sends, owner, session, creates>>

\* the zustand store
storeVars == <<user, isAuthenticated, chatConversations, currentConversation, chatMessages>>

\* the component's own state and the frames of its two form handlers
appVars == <<loading, showAuthModal, authTimeout, attempts, messageInput, isSending,
             streamingContent, handler, titles>>

clientVars == <<user, isAuthenticated, chatConversations, currentConversation, chatMessages,
                errorBanner, pendingSets, effectDue, channels, cleanup, nextChan, events,
                msgFetches, convFetches, newChats, userActions>>

vars == <<call, model, raw, chunks, pos, accumulatedContent, out, lines, reply, splitRead, failure, ret, pc,
          authRequest, requests, calls, conversations, messages, clock, sends,
          owner, session, creates,
          user, isAuthenticated, chatConversations, currentConversation, chatMessages,
          errorBanner, pendingSets, effectDue, channels, cleanup, nextChan, events,
          msgFetches, convFetches, newChats, userActions,
          loading, showAuthModal, authTimeout, attempts, messageInput, isSending,
          streamingContent, handler, titles>>

NoRet == [content |-> <<>>, error |-> NoError, threw |-> FALSE]

\* a chunk of the SDK stream: chunk.choices[0]?.delta?.content may be missing
SdkChunks == [has : {TRUE}, content : {<<"a">>, <<"b">>}] \cup {[has |-> FALSE, content |-> <<>>]}

\* a whole completion: message.content may be null
Replies ==
  [has : {TRUE}, content : {<<>>, <<"a">>, <<"a", "b">>}] \cup {[has |-> FALSE, content |-> <<>>]}

IsOpenAI(m) == m \notin {"gemini", "deepseek-chat"}

\* no sign-in or sign-up has been called
AuthIdle ==
  /\ authRequest = 0
  /\ requests = <<>>
  /\ calls = <<>>

\* auth.uid() when there is no session
NoUser == "<no user>"

\* last_message of a conversation nothing was sent to
NoMessage == <<"<null>">>

\* currentConversation: null
NoConversation == [id |-> "", last_message |-> NoMessage]

\* the store as create() builds it, the component not mounted
ClientIdle ==
  /\ user = NoUser
  /\ isAuthenticated = FALSE
  /\ chatConversations = <<>>
  /\ currentConversation = NoConversation
  /\ chatMessages = <<>>
  /\ errorBanner = ""
  /\ pendingSets = <<>>
  /\ effectDue = FALSE
  /\ channels = {}
  /\ cleanup = 0
  /\ nextChan = 0
  /\ events = {}
  /\ msgFetches = <<>>
  /\ convFetches = <<>>
  /\ newChats = <<>>
  /\ userActions = 0

\* handleSendMessage is not running
NoHandler ==
  [pc |-> "none", conv |-> "", text |-> <<>>, first |-> FALSE, send |-> 0, answer |-> 0,
   stream |-> <<>>, seen |-> <<>>, finalContent |-> <<>>, requested |-> FALSE,
   left |-> FALSE]

\* the component's state as useState initialises it
AppIdle ==
  /\ loading = FALSE
  /\ showAuthModal = FALSE
  /\ authTimeout = 0
  /\ attempts = <<>>
  /\ messageInput = <<>>
  /\ isSending = FALSE
  /\ streamingContent = <<>>
  /\ handler = NoHandler
  /\ titles = [c \in {} |-> <<>>]

\* an empty store and no sendMessage call
RelayIdle ==
  /\ conversations = [c \in {} |-> <<>>]
  /\ messages = {}
  /\ clock = 0
  /\ sends = <<>>
  /\ owner = [c \in {} |-> NoUser]
  /\ session = NoUser
  /\ creates = <<>>

AdapterInit ==
  /\ AuthIdle
  /\ AppIdle
  /\ RelayIdle
  /\ ClientIdle
  /\ call \in {"generate", "stream"}
  /\ model \in ModelIds
  /\ raw \in IF call = "stream" /\ model = "deepseek-chat"
             THEN {Wire(fs) : fs \in SeqsUpTo(Frames, MaxFrames)} ELSE {<<>>}
  /\ chunks \in IF call = "stream" /\ IsOpenAI(model)
                THEN SeqsUpTo(SdkChunks, MaxFrames) ELSE {<<>>}
  /\ pos = 0
  /\ accumulatedContent = <<>>
  /\ out = <<>>
  /\ lines = <<>>
  /\ reply \in IF call = "generate" /\ IsOpenAI(model) THEN Replies
               ELSE IF call = "generate" \/ model = "gemini" THEN {r \in Replies : r.has}
               ELSE {[has |-> FALSE, content |-> <<>>]}
  /\ splitRead = FALSE
  /\ failure = NoFailure
  /\ ret = NoRet
  /\ pc = "start"

(***************************************************************************)
(* generateAIResponse and the three generate*Response functions            *)
(***************************************************************************)
\* the return statement at the end of each try block
TryResponse(c) == [content |-> c, error |-> NoError, threw |-> FALSE]

\* completion.choices[0].message.content || '' inside try / catch; the
\* request can be rejected and choices[0] can be missing
generateOpenAIResponse ==
  /\ call = "generate" /\ pc = "start" /\ IsOpenAI(model)
  /\ \/ ret' = TryResponse(IF reply.has THEN reply.content ELSE <<>>) /\ failure' = NoFailure
     \/ \E e \in {NetworkError, NonErrorThrow, TypeError} :
          ret' = CatchResponse(e) /\ failure' = e
  /\ pc' = "done"
  /\ UNCHANGED <<authVars, relayVars, clientVars, appVars, call, model, raw, chunks, pos, accumulatedContent, out, lines, reply, splitRead>>

\* the outcomes of chat.sendMessage and response.text() inside try / catch
GeminiResponse(e) == IF e = NoFailure THEN TryResponse(reply.content) ELSE CatchResponse(e)

generateGeminiResponse ==
  /\ call = "generate" /\ pc = "start" /\ model = "gemini"
  /\ \E e \in {NoFailure, NetworkError, NonErrorThrow, BlockedError} :
       ret' = GeminiResponse(e) /\ failure' = e
  /\ pc' = "done"
  /\ UNCHANGED <<authVars, relayVars, clientVars, appVars, call, model, raw, chunks, pos, accumulatedContent, out, lines, reply, splitRead>>

\* fetch, the response.ok test, response.json() and data.choices[0] inside try / catch
generateDeepseekResponse ==
  /\ call = "generate" /\ pc = "start" /\ model = "deepseek-chat"
  /\ \/ ret' = TryResponse(reply.content) /\ failure' = NoFailure
     \/ \E e \in {NetworkError, NonErrorThrow, StatusError, SyntaxError, TypeError} :
          ret' = CatchResponse(e) /\ failure' = e
  /\ pc' = "done"
  /\ UNCHANGED <<authVars, relayVars, clientVars, appVars, call, model, raw, chunks, pos, accumulatedContent, out, lines, reply, splitRead>>

generateAIResponse ==
  \/ generateGeminiResponse
  \/ generateDeepseekResponse
  \/ generateOpenAIResponse

(***************************************************************************)
(* streamAIResponse                                                        *)
(***************************************************************************)
\* a gemini branch that announces the text before it completes it
streamGemini_TwoSnapshots ==
  /\ call = "stream" /\ pc = "start" /\ model = "gemini"
  /\ \E e \in {NoFailure, NetworkError, NonErrorThrow, BlockedError} :
       /\ out' = <<[content |-> GeminiResponse(e).content, done |-> FALSE,
                    error |-> GeminiResponse(e).error],
                   [content |-> GeminiResponse(e).content, done |-> TRUE,
                    error |-> GeminiResponse(e).error]>>
       /\ failure' = e
  /\ pc' = "done"
  /\ UNCHANGED <<authVars, relayVars, clientVars, appVars, call, model, raw, chunks, pos, accumulatedContent, lines, reply, splitRead, ret>>

\* case 'gemini': one snapshot made from generateGeminiResponse's record
streamGemini ==
  /\ call = "stream" /\ pc = "start" /\ model = "gemini"
  /\ \E e \in {NoFailure, NetworkError, NonErrorThrow, BlockedError} :
       /\ out' = <<[content |-> GeminiResponse(e).content, done |-> TRUE,
                    error |-> GeminiResponse(e).error]>>
       /\ failure' = e
  /\ pc' = "done"
  /\ UNCHANGED <<authVars, relayVars, clientVars, appVars, call, model, raw, chunks, pos, accumulatedContent, lines, reply, splitRead, ret>>

\* default: await openai.chat.completions.create({... stream: true})
streamOpenAICreate ==
  /\ call = "stream" /\ pc = "start" /\ IsOpenAI(model)
  /\ \/ /\ pc' = "iterating"
        /\ UNCHANGED <<out, failure>>
     \/ \E e \in {NetworkError, NonErrorThrow} :
          /\ out' = Append(out, CatchSnapshot(e))
          /\ failure' = e
          /\ pc' = "done"
  /\ UNCHANGED <<authVars, relayVars, clientVars, appVars, call, model, raw, chunks, pos, accumulatedContent, lines, reply, splitRead, ret>>

\* chunk.choices[0]?.delta?.content || ''
ChunkContent(chunk) == IF chunk.has THEN chunk.content ELSE <<>>

\* a loop that yields the delta instead of the accumulator
streamOpenAIChunk_DeltaOnly ==
  /\ call = "stream" /\ pc = "iterating" /\ IsOpenAI(model)
  /\ pos < Len(chunks)
  /\ pos' = pos + 1
  /\ accumulatedContent' = accumulatedContent \o ChunkContent(chunks[pos + 1])
  /\ out' = Append(out, Snapshot(ChunkContent(chunks[pos + 1]), FALSE))
  /\ UNCHANGED <<authVars, relayVars, clientVars, appVars, call, model, raw, chunks, lines, reply, splitRead, failure, ret, pc>>

\* one turn of for await (const chunk of stream)
streamOpenAIChunk ==
  /\ call = "stream" /\ pc = "iterating" /\ IsOpenAI(model)
  /\ pos < Len(chunks)
  /\ pos' = pos + 1
  /\ accumulatedContent' = accumulatedContent \o ChunkContent(chunks[pos + 1])
  /\ out' = Append(out, Snapshot(accumulatedContent', FALSE))
  /\ UNCHANGED <<authVars, relayVars, clientVars, appVars, call, model, raw, chunks, lines, reply, splitRead, failure, ret, pc>>

\* the stream is exhausted: yield { content: accumulatedContent, done: true }
streamOpenAIEnd ==
  /\ call = "stream" /\ pc = "iterating" /\ IsOpenAI(model)
  /\ pos = Len(chunks)
  /\ out' = Append(out, Snapshot(accumulatedContent, TRUE))
  /\ pc' = "done"
  /\ UNCHANGED <<authVars, relayVars, clientVars, appVars, call, model, raw, chunks, pos, accumulatedContent, lines, reply, splitRead, failure, ret>>

\* the stream's iterator rejects (connection dropped): the catch block
streamOpenAIThrows ==
  /\ call = "stream" /\ pc = "iterating" /\ IsOpenAI(model)
  /\ \E e \in {NetworkError, NonErrorThrow} :
       out' = Append(out, CatchSnapshot(e)) /\ failure' = e
  /\ pc' = "done"
  /\ UNCHANGED <<authVars, relayVars, clientVars, appVars, call, model, raw, chunks, pos, accumulatedContent, lines, reply, splitRead, ret>>

(***************************************************************************)
(* streamDeepseekResponse                                                  *)
(***************************************************************************)
\* await fetch(...), the response.ok test and response.body?.getReader()
streamDeepseekFetch ==
  /\ call = "stream" /\ pc = "start" /\ model = "deepseek-chat"
  /\ \/ /\ pc' = "reading"
        /\ UNCHANGED <<out, failure>>
     \/ \E e \in {NetworkError, NonErrorThrow, StatusError, NoBodyError} :
          /\ out' = Append(out, CatchSnapshot(e))
          /\ failure' = e
          /\ pc' = "done"
  /\ UNCHANGED <<authVars, relayVars, clientVars, appVars, call, model, raw, chunks, pos, accumulatedContent, lines, reply, splitRead, ret>>

\* await reader.read() hands over the next bytes, however many the transport
\* delivers at once; the chunk is decoded, split and filtered
streamDeepseekRead ==
  /\ call = "stream" /\ pc = "reading" /\ model = "deepseek-chat"
  /\ lines = <<>>
  /\ \E k \in 1..(Len(raw) - pos) :
       /\ lines' = Lines(SubSeq(raw, pos + 1, pos + k))
       /\ pos' = pos + k
       /\ splitRead' = (splitRead \/ raw[pos + k] # NL)
  /\ UNCHANGED <<authVars, relayVars, clientVars, appVars, call, model, raw, chunks, accumulatedContent, out, reply, failure, ret, pc>>

\* one turn of for (const line of lines)
streamDeepseekLine ==
  /\ call = "stream" /\ pc = "reading" /\ model = "deepseek-chat"
  /\ lines # <<>>
  /\ IF ~StartsWithData(Head(lines))
     THEN /\ lines' = Tail(lines)
          /\ UNCHANGED <<accumulatedContent, out, failure, pc>>
     ELSE IF ParseDelta(Head(lines)).ok
     THEN /\ lines' = Tail(lines)
          /\ accumulatedContent' = accumulatedContent \o ParseDelta(Head(lines)).content
          /\ out' = Append(out, Snapshot(accumulatedContent', FALSE))
          /\ UNCHANGED <<failure, pc>>
     ELSE /\ lines' = <<>>
          /\ out' = Append(out, CatchSnapshot(SyntaxError))
          /\ failure' = SyntaxError
          /\ pc' = "done"
          /\ UNCHANGED accumulatedContent
  /\ UNCHANGED <<authVars, relayVars, clientVars, appVars, call, model, raw, chunks, pos, reply, splitRead, ret>>

\* reader.read() reports done: break, then yield the accumulator with done: true
streamDeepseekDone ==
  /\ call = "stream" /\ pc = "reading" /\ model = "deepseek-chat"
  /\ lines = <<>>
  /\ pos = Len(raw)
  /\ out' = Append(out, Snapshot(accumulatedContent, TRUE))
  /\ pc' = "done"
  /\ UNCHANGED <<authVars, relayVars, clientVars, appVars, call, model, raw, chunks, pos, accumulatedContent, lines, reply, splitRead, failure, ret>>

\* reader.read() rejects (connection dropped): the catch block
streamDeepseekReadFails ==
  /\ call = "stream" /\ pc = "reading" /\ model = "deepseek-chat"
  /\ lines = <<>>
  /\ \E e \in {NetworkError, NonErrorThrow} :
       out' = Append(out, CatchSnapshot(e)) /\ failure' = e
  /\ pc' = "done"
  /\ UNCHANGED <<authVars, relayVars, clientVars, appVars, call, model, raw, chunks, pos, accumulatedContent, lines, reply, splitRead, ret>>

streamDeepseekResponse ==
  \/ streamDeepseekFetch
  \/ streamDeepseekRead
  \/ streamDeepseekLine
  \/ streamDeepseekDone
  \/ streamDeepseekReadFails

streamAIResponse ==
  \/ streamGemini
  \/ streamDeepseekResponse
  \/ streamOpenAICreate
  \/ streamOpenAIChunk
  \/ streamOpenAIEnd
  \/ streamOpenAIThrows

AdapterNext == generateAIResponse \/ streamAIResponse

AdapterSpec == AdapterInit /\ [][AdapterNext]_vars

\* every pending request, read and iteration step eventually settles
AdapterFairSpec == AdapterSpec /\ WF_vars(AdapterNext)

(***************************************************************************)
(* lib/auth.ts: signIn and signUp share the module variable authRequest    *)
(***************************************************************************)
\* most calls of signIn / signUp in one run
MaxCalls == 3

Emails == {"", "a@x.io"}

\* a password is modelled by its length
PasswordLengths == {0, 5, 6}

MinPasswordLength == 6

\* a promise's resolution: the value it is fulfilled with or the message of
\* the Error it is rejected with
Fulfilled(v) == [ok |-> TRUE, val |-> v]
Rejected(m) == [ok |-> FALSE, val |-> m]
Pending == [ok |-> FALSE, val |-> "<pending>"]

\* if (!email || !password) throw ...
MissingCredentials(email, pwlen) == email = "" \/ pwlen = 0

\* a length check that lets a password of five characters through
PasswordTooShort_OffByOne(pwlen) == pwlen < MinPasswordLength - 1

\* if (password.length < 6) throw ...
PasswordTooShort(pwlen) == pwlen < MinPasswordLength

\* authRequest = supabase.auth.<fn>(...).then(...).finally(...)
NewRequest(fn, email) == [fn |-> fn, email |-> email, stage |-> "upstream", res |-> Pending]

\* the promise an async function returns when it throws before any await
ThrownCall(fn, email, pwlen, m) ==
  [fn |-> fn, email |-> email, pwlen |-> pwlen, on |-> 0, state |-> "settled",
   res |-> Rejected(m)]

\* the promise an async function returns from return authRequest
ReturnedCall(fn, email, pwlen, r) ==
  [fn |-> fn, email |-> email, pwlen |-> pwlen, on |-> r, state |-> "pending",
   res |-> Pending]

\* the body of signIn: throw before any await, or return the outstanding
\* authRequest, or start a request and return it
signInCall(email, pwlen) ==
  IF MissingCredentials(email, pwlen)
  THEN /\ calls' = Append(calls, ThrownCall("signIn", email, pwlen,
                                            "Email and password are required"))
       /\ UNCHANGED <<authRequest, requests>>
  ELSE IF authRequest # 0
  THEN /\ calls' = Append(calls, ReturnedCall("signIn", email, pwlen, authRequest))
       /\ UNCHANGED <<authRequest, requests>>
  ELSE /\ requests' = Append(requests, NewRequest("signIn", email))
       /\ authRequest' = Len(requests')
       /\ calls' = Append(calls, ReturnedCall("signIn", email, pwlen, authRequest'))

\* the body of signUp: as signIn, with the length check before the request
signUpCall(email, pwlen) ==
  IF MissingCredentials(email, pwlen)
  THEN /\ calls' = Append(calls, ThrownCall("signUp", email, pwlen,
                                            "Email and password are required"))
       /\ UNCHANGED <<authRequest, requests>>
  ELSE IF PasswordTooShort(pwlen)
  THEN /\ calls' = Append(calls, ThrownCall("signUp", email, pwlen,
                                            "Password must be at least 6 characters long"))
       /\ UNCHANGED <<authRequest, requests>>
  ELSE IF authRequest # 0
  THEN /\ calls' = Append(calls, ReturnedCall("signUp", email, pwlen, authRequest))
       /\ UNCHANGED <<authRequest, requests>>
  ELSE /\ requests' = Append(requests, NewRequest("signUp", email))
       /\ authRequest' = Len(requests')
       /\ calls' = Append(calls, ReturnedCall("signUp", email, pwlen, authRequest'))

\* a signIn that starts a request of its own although one is outstanding
signIn_NoCoalescing(email, pwlen) ==
  /\ Len(calls) < MaxCalls
  /\ IF MissingCredentials(email, pwlen)
     THEN /\ calls' = Append(calls, ThrownCall("signIn", email, pwlen,
                                               "Email and password are required"))
          /\ UNCHANGED <<authRequest, requests>>
     ELSE /\ requests' = Append(requests, NewRequest("signIn", email))
          /\ authRequest' = Len(requests')
          /\ calls' = Append(calls, ReturnedCall("signIn", email, pwlen, authRequest'))
  /\ UNCHANGED <<adapterVars, relayVars, clientVars, appVars>>

\* a call of signIn from outside the form
signIn(email, pwlen) ==
  /\ Len(calls) < MaxCalls
  /\ signInCall(email, pwlen)
  /\ UNCHANGED <<adapterVars, relayVars, clientVars, appVars>>

\* a call of signUp from outside the form
signUp(email, pwlen) ==
  /\ Len(calls) < MaxCalls
  /\ signUpCall(email, pwlen)
  /\ UNCHANGED <<adapterVars, relayVars, clientVars, appVars>>

\* what supabase.auth.signInWithPassword / signUp resolve with: data, or an
\* error with a message
UpstreamErrors == {"Invalid login credentials", "User already registered", "Email not confirmed"}

\* the then callback of signIn, by the error's message
SignInThen(email, error) ==
  IF error = "" THEN Fulfilled(email)
  ELSE IF error = "Invalid login credentials"
  THEN Rejected("Invalid email or password. Please try again.")
  ELSE Rejected(error)

\* the top of the then callback of signUp, by the error's message
SignUpThen(email, error) ==
  IF error = "" THEN Fulfilled(email)
  ELSE IF error = "User already registered"
  THEN Rejected("This email is already registered. Please sign in instead.")
  ELSE Rejected(error)

\* a signIn whose chain has no finally: the slot keeps the settled request
signInSettles_KeepsSlot(r) ==
  /\ requests[r].fn = "signIn" /\ requests[r].stage = "upstream"
  /\ \E error \in UpstreamErrors \cup {""} :
       requests' = [requests EXCEPT ![r].stage = "settled",
                                    ![r].res = SignInThen(requests[r].email, error)]
  /\ UNCHANGED authRequest
  /\ UNCHANGED <<adapterVars, relayVars, clientVars, appVars, calls>>

\* signInWithPassword resolves: the then callback, then finally resets authRequest
signInSettles(r) ==
  /\ requests[r].fn = "signIn" /\ requests[r].stage = "upstream"
  /\ \E error \in UpstreamErrors \cup {""} :
       requests' = [requests EXCEPT ![r].stage = "settled",
                                    ![r].res = SignInThen(requests[r].email, error)]
  /\ authRequest' = 0
  /\ UNCHANGED <<adapterVars, relayVars, clientVars, appVars, calls>>

\* supabase.auth.signUp resolves: the then callback throws, or returns authData
\* at once when authData.user is missing, or first awaits the profile insert
signUpSettles(r) ==
  /\ requests[r].fn = "signUp" /\ requests[r].stage = "upstream"
  /\ \/ \E error \in UpstreamErrors :
          /\ requests' = [requests EXCEPT ![r].stage = "settled",
                                          ![r].res = SignUpThen(requests[r].email, error)]
          /\ authRequest' = 0
     \/ /\ requests' = [requests EXCEPT ![r].stage = "settled",
                                        ![r].res = Fulfilled("<no user>")]
        /\ authRequest' = 0
     \/ /\ requests' = [requests EXCEPT ![r].stage = "profile"]
        /\ UNCHANGED authRequest
  /\ UNCHANGED <<adapterVars, relayVars, clientVars, appVars, calls>>

\* the profile insert settles (its failure is only logged): return authData,
\* then finally resets authRequest
profileInsertSettles(r) ==
  /\ requests[r].stage = "profile"
  /\ requests' = [requests EXCEPT ![r].stage = "settled",
                                  ![r].res = SignUpThen(requests[r].email, "")]
  /\ authRequest' = 0
  /\ UNCHANGED <<adapterVars, relayVars, clientVars, appVars, calls>>

\* the promise a call returned follows the request it was given
callSettles(c) ==
  /\ calls[c].state = "pending"
  /\ requests[calls[c].on].stage = "settled"
  /\ calls' = [calls EXCEPT ![c].state = "settled", ![c].res = requests[calls[c].on].res]
  /\ UNCHANGED <<adapterVars, relayVars, clientVars, appVars, authRequest, requests>>

AdapterIdle ==
  /\ call = "none"
  /\ model = "gpt-3.5-turbo"
  /\ raw = <<>>
  /\ chunks = <<>>
  /\ pos = 0
  /\ accumulatedContent = <<>>
  /\ out = <<>>
  /\ lines = <<>>
  /\ reply = [has |-> FALSE, content |-> <<>>]
  /\ splitRead = FALSE
  /\ failure = NoFailure
  /\ ret = NoRet
  /\ pc = "idle"

AuthInit == AdapterIdle /\ RelayIdle /\ ClientIdle /\ AppIdle /\ AuthIdle

AuthNext ==
  \/ \E email \in Emails, pwlen \in PasswordLengths : signIn(email, pwlen)
  \/ \E email \in Emails, pwlen \in PasswordLengths : signUp(email, pwlen)
  \/ \E r \in 1..Len(requests) : signInSettles(r)
  \/ \E r \in 1..Len(requests) : signUpSettles(r)
  \/ \E r \in 1..Len(requests) : profileInsertSettles(r)
  \/ \E c \in 1..Len(calls) : callSettles(c)

AuthSpec == AuthInit /\ [][AuthNext]_vars

(***************************************************************************)
(* lib/api.ts: getMessages and sendMessage against the managed store       *)
(***************************************************************************)
\* most calls of sendMessage in one run
MaxSends == 2

ConvIds == {"c1", "c2"}

\* the texts sent in a run, each a text of one token
MessageTexts == {<<"hello">>, <<"bye">>}

Roles == {"user", "assistant"}

\* the rows of a set, ordered by created_at, oldest first
RECURSIVE OrderByCreatedAt(_)
OrderByCreatedAt(rows) ==
  IF rows = {} THEN <<>>
  ELSE LET first == CHOOSE r \in rows : \A q \in rows : r.created_at <= q.created_at
       IN  <<first>> \o OrderByCreatedAt(rows \ {first})

\* a getMessages that lists the newest message first
getMessages_NewestFirst(conversationId) ==
  LET asc == OrderByCreatedAt({m \in messages : m.conversation_id = conversationId})
  IN  [i \in 1..Len(asc) |-> asc[Len(asc) + 1 - i]]

\* select('*').eq('conversation_id', conversationId).order('created_at', { ascending: true })
getMessages(conversationId) ==
  OrderByCreatedAt({m \in messages : m.conversation_id = conversationId})

\* sendMessage builds the insert and the update and awaits both; overlapped
\* (bookkeeping, not program state) records that another sendMessage on the
\* same conversation was awaiting its results at some time during this call
sendMessageCall(conversationId, content, role) ==
  LET concurrent == {j \in 1..Len(sends) :
                       sends[j].conv = conversationId /\ sends[j].state = "awaiting"}
  IN  sends' = Append([j \in 1..Len(sends) |->
                         IF j \in concurrent THEN [sends[j] EXCEPT !.overlapped = TRUE]
                         ELSE sends[j]],
                      [conv |-> conversationId, content |-> content, role |-> role,
                       uid |-> session, row |-> 0,
                       insert |-> "pending", update |-> "pending", state |-> "awaiting",
                       thrown |-> "none", overlapped |-> concurrent # {}])

\* a call of sendMessage from outside handleSendMessage
sendMessage(conversationId, content, role) ==
  /\ Len(sends) < MaxSends
  /\ sendMessageCall(conversationId, content, role)
  /\ UNCHANGED <<adapterVars, authVars, clientVars, appVars, accessVars, conversations, messages, clock>>

\* the policy "Users can CRUD messages in their conversations" and the policy
\* "Users can CRUD own conversations": the conversation exists and is the
\* requesting user's
MayAccess(uid, conversationId) ==
  conversationId \in DOMAIN owner /\ uid # NoUser /\ owner[conversationId] = uid

\* messagePromise settles: the store has inserted the row (created_at is the
\* store's now()), or has refused it
messagePromiseSettles(i) ==
  /\ sends[i].state = "awaiting" /\ sends[i].insert = "pending"
  /\ \/ /\ MayAccess(sends[i].uid, sends[i].conv)
        /\ clock' = clock + 1
        /\ messages' = messages \cup
             {[id |-> clock', conversation_id |-> sends[i].conv, content |-> sends[i].content,
               role |-> sends[i].role, created_at |-> clock']}
        /\ sends' = [sends EXCEPT ![i].insert = "ok", ![i].row = clock']
     \/ /\ sends' = [sends EXCEPT ![i].insert = "error"]
        /\ UNCHANGED <<messages, clock>>
  /\ UNCHANGED <<adapterVars, authVars, clientVars, appVars, accessVars, conversations>>

\* updatePromise settles: the store has set last_message of the rows the
\* request may see (none without access: an update of no row is no error), or
\* the request has failed
updatePromiseSettles(i) ==
  /\ sends[i].state = "awaiting" /\ sends[i].update = "pending"
  /\ \/ /\ conversations' =
             IF MayAccess(sends[i].uid, sends[i].conv)
             THEN [conversations EXCEPT ![sends[i].conv] = sends[i].content]
             ELSE conversations
        /\ sends' = [sends EXCEPT ![i].update = "ok"]
     \/ /\ sends' = [sends EXCEPT ![i].update = "error"]
        /\ UNCHANGED conversations
  /\ UNCHANGED <<adapterVars, authVars, clientVars, appVars, accessVars, messages, clock>>

\* a sendMessage that throws as soon as the insert has failed
sendMessageReturns_FailFast(i) ==
  /\ sends[i].state = "awaiting"
  /\ \/ sends[i].insert = "error"
     \/ sends[i].insert # "pending" /\ sends[i].update # "pending"
  /\ sends' = [sends EXCEPT
                 ![i].state = IF sends[i].insert = "error" \/ sends[i].update = "error"
                              THEN "threw" ELSE "returned",
                 ![i].thrown = IF sends[i].insert = "error" THEN "messageResult.error"
                               ELSE IF sends[i].update = "error" THEN "updateResult.error"
                               ELSE "none"]
  /\ UNCHANGED <<adapterVars, authVars, clientVars, appVars, accessVars, conversations, messages, clock>>

\* Promise.all has both results: throw messageResult.error, else
\* updateResult.error, else return the row
sendMessageReturns(i) ==
  /\ sends[i].state = "awaiting"
  /\ sends[i].insert # "pending" /\ sends[i].update # "pending"
  /\ sends' = [sends EXCEPT
                 ![i].state = IF sends[i].insert = "error" \/ sends[i].update = "error"
                              THEN "threw" ELSE "returned",
                 ![i].thrown = IF sends[i].insert = "error" THEN "messageResult.error"
                               ELSE IF sends[i].update = "error" THEN "updateResult.error"
                               ELSE "none"]
  /\ UNCHANGED <<adapterVars, authVars, clientVars, appVars, accessVars, conversations, messages, clock>>

\* the role of the rows sent in a run: handleSendMessage sends the user's
\* message with role 'user' (the role has no part in what sendMessage does)
SentRoles == {"user"}

\* identifiers gen_random_uuid() can give to new conversations
NewConvIds == {"c3", "c4", "c5"}

\* the identifier the next new conversation gets: one no row has
FreshConvId ==
  IF "c3" \notin DOMAIN conversations THEN "c3"
  ELSE IF "c4" \notin DOMAIN conversations THEN "c4" ELSE "c5"

\* what the store answers when it refuses a row
PolicyViolation == "new row violates row-level security policy"
RequestFailed == "Failed to fetch"

\* the row .insert(...).select().single() returns
ConversationRow(id, uid) == [id |-> id, user_id |-> uid, last_message |-> NoMessage]

\* a createConversation that returns a row although the store refused it
createConversationRequest_IgnoresError ==
  /\ \E id \in (NewConvIds \ DOMAIN conversations) \cap {FreshConvId} :
       /\ creates' = Append(creates, [uid |-> session, state |-> "returned", error |-> "",
                                      data |-> ConversationRow(id, session)])
       /\ IF session # NoUser
          THEN /\ conversations' = [c \in DOMAIN conversations \cup {id} |->
                                      IF c = id THEN NoMessage ELSE conversations[c]]
               /\ owner' = [c \in DOMAIN owner \cup {id} |->
                              IF c = id THEN session ELSE owner[c]]
          ELSE UNCHANGED <<conversations, owner>>

\* createConversation: the insert carries user_id = the session's user (none
\* without a session).  The policy admits only rows whose user_id is
\* auth.uid() and user_id is NOT NULL, so without a session the store refuses
\* the row; with one it stores the row, unless the request fails
createConversationRequest ==
  /\ \/ /\ session # NoUser
        /\ \E id \in (NewConvIds \ DOMAIN conversations) \cap {FreshConvId} :
             /\ conversations' = [c \in DOMAIN conversations \cup {id} |->
                                    IF c = id THEN NoMessage ELSE conversations[c]]
             /\ owner' = [c \in DOMAIN owner \cup {id} |->
                            IF c = id THEN session ELSE owner[c]]
             /\ creates' = Append(creates, [uid |-> session, state |-> "returned",
                                            error |-> "", data |-> ConversationRow(id, session)])
     \/ /\ session = NoUser
        /\ creates' = Append(creates, [uid |-> session, state |-> "threw",
                                       error |-> PolicyViolation,
                                       data |-> ConversationRow("", NoUser)])
        /\ UNCHANGED <<conversations, owner>>
     \/ /\ creates' = Append(creates, [uid |-> session, state |-> "threw",
                                       error |-> RequestFailed,
                                       data |-> ConversationRow("", NoUser)])
        /\ UNCHANGED <<conversations, owner>>

\* the conversations exist, nothing has been sent
RelayInit ==
  /\ AdapterIdle
  /\ AppIdle
  /\ AuthIdle
  /\ ClientIdle
  /\ conversations = [c \in ConvIds |-> NoMessage]
  /\ messages = {}
  /\ clock = 0
  /\ sends = <<>>
  /\ owner = [c \in ConvIds |-> "u1"]
  /\ session \in {NoUser, "u1"}
  /\ creates = <<>>

RelayNext ==
  \/ \E c \in ConvIds, t \in MessageTexts, role \in SentRoles : sendMessage(c, t, role)
  \/ \E i \in 1..Len(sends) : messagePromiseSettles(i)
  \/ \E i \in 1..Len(sends) : updatePromiseSettles(i)
  \/ \E i \in 1..Len(sends) : sendMessageReturns(i)

RelaySpec == RelayInit /\ [][RelayNext]_vars

(***************************************************************************)
(* Properties of the model response adapter                                *)
(***************************************************************************)
Last(s) == s[Len(s)]

\* the error message the catch blocks are to report for a thrown value
Reported(e) == IF e.isError THEN e.message ELSE "Unknown error occurred"

\* no snapshot but the last has done=true, and a failure before anything was
\* read leaves the fallback snapshot alone
C1_TerminalShape ==
  call = "stream" =>
    /\ pc # "done" => \A i \in 1..Len(out) : ~out[i].done
    /\ pc = "done" =>
         /\ Len(out) >= 1
         /\ Last(out).done
         /\ \A i \in 1..(Len(out) - 1) : ~out[i].done
    /\ (pc = "done" /\ failure.kind = "upstream" /\ pos = 0) =>
         /\ Len(out) = 1
         /\ out[1].content = FallbackContent
         /\ out[1].content # <<>>

\* C1: every sequence streamAIResponse produces is finite and ends with its
\* only done=true snapshot; when the upstream fails before anything was read,
\* that snapshot is the only one and carries the non-empty fallback text.
C1_FiniteWithTerminalSnapshot == []C1_TerminalShape /\ <>(pc = "done")

C1_Witness ==
  /\ call = "stream" /\ model = "deepseek-chat" /\ pc = "done"
  /\ failure = StatusError /\ pos = 0 /\ Len(out) = 1

\* one step of a streaming call, seen from the consumer
C2_FailureStep ==
  /\ (call = "stream" /\ failure = NoFailure /\ failure' # NoFailure) =>
       /\ out' = Append(out, [content |-> FallbackContent, done |-> TRUE,
                              error |-> Reported(failure')])
       /\ Reported(failure') \notin {"", NoError}
       /\ pc' = "done"
  /\ (call = "stream" /\ pc = "done") => out' = out
  /\ call = "stream" => Len(out') >= Len(out) /\ SubSeq(out', 1, Len(out)) = out

\* C2: the step in which a streaming provider fails appends exactly one
\* snapshot (fallback text, done=true, the non-empty error message) to the
\* snapshots yielded before, which stay as they were, and ends the sequence.
C2_OneErrorSnapshot == [][C2_FailureStep]_vars

C2_Witness ==
  /\ call = "stream" /\ IsOpenAI(model) /\ pc = "done"
  /\ failure = NetworkError /\ Len(out) = 3 /\ ~out[2].done

\* the first n chunk contents put together
RECURSIVE ChunkText(_, _)
ChunkText(cs, n) ==
  IF n = 0 THEN <<>>
  ELSE ChunkText(cs, n - 1) \o (IF cs[n].has THEN cs[n].content ELSE <<>>)

IsPrefix(s, t) == Len(s) <= Len(t) /\ SubSeq(t, 1, Len(s)) = s

\* C3: token-incremental provider, upstream succeeds: the i-th snapshot holds
\* the text of the first i chunks (so each extends the one before), all with
\* done=false, and the sequence ends with one done=true snapshot holding the
\* text of all chunks.
C3_AccumulatedSnapshots ==
  (call = "stream" /\ IsOpenAI(model) /\ failure = NoFailure) =>
    /\ \A i \in 1..Len(out) :
         i <= Len(chunks) => out[i] = Snapshot(ChunkText(chunks, i), FALSE)
    /\ \A i \in 2..Len(out) : IsPrefix(out[i - 1].content, out[i].content)
    /\ pc # "done" => Len(out) = pos
    /\ pc = "done" =>
         /\ Len(out) = Len(chunks) + 1
         /\ Last(out) = Snapshot(ChunkText(chunks, Len(chunks)), TRUE)

C3_Witness ==
  /\ call = "stream" /\ model = "gpt-3.5-turbo" /\ pc = "done" /\ failure = NoFailure
  /\ Len(out) = 3 /\ out[1].content = <<"a">> /\ out[3].content = <<"a", "b">>

\* the deltas of the data frames of a byte stream, in order
SentDeltas(bytes) ==
  LET data == SelectSeq(Lines(bytes), StartsWithData)
  IN  [i \in 1..Len(data) |-> ParseDelta(data[i])]

RECURSIVE DeltaText(_, _)
DeltaText(ds, n) == IF n = 0 THEN <<>> ELSE DeltaText(ds, n - 1) \o ds[n].content

\* the snapshots d1, d1+d2, ... with done=false, then the whole text with done=true
ExpectedSnapshots(ds) ==
  [i \in 1..(Len(ds) + 1) |->
     IF i <= Len(ds) THEN Snapshot(DeltaText(ds, i), FALSE)
     ELSE Snapshot(DeltaText(ds, Len(ds)), TRUE)]

OnlyDeltaFrames(bytes) ==
  \A i \in 1..Len(Lines(bytes)) :
    StartsWithData(Lines(bytes)[i]) /\ ParseDelta(Lines(bytes)[i]).ok

\* C4: event-frame provider: when the upstream sends the delta frames d1..dn
\* and closes, the consumer has seen d1, d1+d2, ..., d1+...+dn with done=false
\* and then a done=true snapshot with the whole text.
C4_DeltasAccumulate ==
  (/\ call = "stream" /\ model = "deepseek-chat" /\ pc = "done"
   /\ failure.kind # "upstream" /\ OnlyDeltaFrames(raw)) =>
    out = ExpectedSnapshots(SentDeltas(raw))

\* what C4 asks for does hold when every read ends on a frame boundary
C4_HoldsOnWholeFrames ==
  (/\ call = "stream" /\ model = "deepseek-chat" /\ pc = "done"
   /\ failure.kind # "upstream" /\ OnlyDeltaFrames(raw) /\ ~splitRead) =>
    out = ExpectedSnapshots(SentDeltas(raw))

\* the content of the last snapshot yielded before the terminal one
LastAccumulated(snaps) ==
  IF Len(snaps) <= 1 THEN <<>> ELSE snaps[Len(snaps) - 1].content

\* C5: event-frame provider: once the upstream has closed its stream, with or
\* without its end marker frame before, the sequence ends with a done=true
\* snapshot that carries the last accumulated value and no error.
C5_CloseEndsCleanly ==
  (/\ call = "stream" /\ model = "deepseek-chat" /\ pc = "done"
   /\ failure.kind # "upstream" /\ ~splitRead) =>
    Last(out) = Snapshot(LastAccumulated(out), TRUE)

\* what C5 asks for does hold when no end marker frame is sent
C5_HoldsWithoutEndMarker ==
  (/\ call = "stream" /\ model = "deepseek-chat" /\ pc = "done"
   /\ failure.kind # "upstream" /\ ~splitRead
   /\ \A i \in 1..Len(Lines(raw)) : Lines(raw)[i] # EndMarkerFrame) =>
    Last(out) = Snapshot(LastAccumulated(out), TRUE)

\* C6: whole-response provider: streamAIResponse produces exactly one
\* snapshot, with done=true: the response text and no error when the upstream
\* call succeeds, the fallback text and the error when it fails.
C6_SingleSnapshot ==
  (call = "stream" /\ model = "gemini" /\ pc = "done") =>
    /\ Len(out) = 1
    /\ out[1].done
    /\ failure = NoFailure => out[1].content = reply.content /\ out[1].error = NoError
    /\ failure # NoFailure =>
         out[1].content = FallbackContent /\ out[1].error = Reported(failure)

C6_Witness ==
  /\ call = "stream" /\ model = "gemini" /\ pc = "done"
  /\ failure = BlockedError /\ out[1].error = "Response was blocked"

\* C7: generateAIResponse never throws: when the upstream call fails it
\* returns the fallback text with the underlying error message in the error
\* field, and when it succeeds the error field is absent.
C7_FailSoft ==
  (call = "generate" /\ pc = "done") =>
    /\ ~ret.threw
    /\ failure # NoFailure =>
         /\ ret.content = FallbackContent
         /\ ret.error = Reported(failure)
         /\ ret.error # NoError
    /\ failure = NoFailure =>
         /\ ret.error = NoError
         /\ ret.content = (IF reply.has THEN reply.content ELSE <<>>)

C7_Witness ==
  /\ call = "generate" /\ model = "unlisted-model" /\ pc = "done"
  /\ failure = TypeError /\ ret.content = FallbackContent

(***************************************************************************)
(* Properties of signIn / signUp                                           *)
(***************************************************************************)
ValidArguments(c) ==
  c.email # "" /\ c.pwlen > 0 /\ (c.fn = "signUp" => c.pwlen >= 6)

Unsettled == {r \in 1..Len(requests) : requests[r].stage # "settled"}

\* one upstream request at a time, and one resolution per request
C8_AtMostOneInFlight ==
  /\ Cardinality({r \in 1..Len(requests) : requests[r].stage = "upstream"}) <= 1
  /\ \A c \in 1..Len(calls) :
       (calls[c].on # 0 /\ calls[c].state = "settled") =>
         calls[c].res = requests[calls[c].on].res
  /\ \A c, d \in 1..Len(calls) :
       (calls[c].on # 0 /\ calls[c].on = calls[d].on
        /\ calls[c].state = "settled" /\ calls[d].state = "settled") =>
         calls[c].res = calls[d].res

\* a valid call made while a request is unsettled joins that request
C8_CallWhileOutstanding ==
  (Len(calls') = Len(calls) + 1 /\ ValidArguments(Last(calls')) /\ Unsettled # {}) =>
     /\ requests' = requests
     /\ Last(calls').on \in Unsettled
     /\ Last(calls').state = "pending"

\* C8: at most one upstream authentication request is in flight; a signIn or
\* signUp call with valid arguments made while a request has not settled
\* starts no request and its promise takes the resolution of that request.
C8_Coalescing == []C8_AtMostOneInFlight /\ [][C8_CallWhileOutstanding]_vars

C8_Witness ==
  /\ Len(calls) = 3 /\ Len(requests) = 1
  /\ calls[1].fn = "signUp" /\ calls[2].fn = "signIn" /\ calls[3].fn = "signIn"
  /\ \A c \in 1..3 : calls[c].on = 1 /\ calls[c].state = "settled" /\ ~calls[c].res.ok

(***************************************************************************)
(* Properties of the conversation relay                                    *)
(***************************************************************************)
\* what C9 asks for at the return of call i
C9_Post(i) ==
  LET listed == getMessages(sends[i].conv)
  IN  /\ listed # <<>>
      /\ Last(listed).content = sends[i].content
      /\ conversations[sends[i].conv] = sends[i].content

Returns(i) == sends[i].state = "awaiting" /\ sends'[i].state = "returned"

\* C9 as stated: when sendMessage(C, text, role) returns, listMessages(C) ends
\* with a message whose content is text and C's last_message is text.
C9_AfterSend ==
  [][\A i \in 1..Len(sends) : Returns(i) => C9_Post(i)]_vars

\* C9: when sendMessage(C, text, role) returns and no other sendMessage on C
\* was awaiting its results at any time during the call, listMessages(C) ends
\* with a message whose content is text and C's last_message is text.
C9_AfterSendAlone ==
  [][\A i \in 1..Len(sends) : (Returns(i) /\ ~sends[i].overlapped) => C9_Post(i)]_vars

C9_Witness ==
  /\ Len(sends) = 2
  /\ sends[1].conv = "c1" /\ sends[2].conv = "c1"
  /\ sends[1].content = <<"hello">> /\ sends[2].content = <<"bye">>
  /\ sends[1].state = "returned" /\ sends[2].state = "returned"
  /\ ~sends[2].overlapped
  /\ Len(getMessages("c1")) = 2

\* C10: once all sendMessage calls have returned, each conversation's
\* last_message is the content of its most recently created message.
C10_LastMessageIsNewest ==
  (sends # <<>> /\ \A i \in 1..Len(sends) : sends[i].state = "returned") =>
    \A c \in ConvIds :
      getMessages(c) # <<>> => conversations[c] = Last(getMessages(c)).content

\* the row a sendMessage call inserted is in the messages table
RowStored(i) ==
  \E m \in messages' : /\ m.id = sends[i].row
                       /\ m.conversation_id = sends[i].conv
                       /\ m.content = sends[i].content

\* what holds at the step at which call i of sendMessage returns or throws
C11_AtReturn(i) ==
  /\ sends[i].insert # "pending" /\ sends[i].update # "pending"
  /\ sends'[i].state = "threw" <=> (sends[i].insert = "error" \/ sends[i].update = "error")
  /\ sends[i].insert = "error" => sends'[i].thrown = "messageResult.error"
  /\ sends[i].insert = "ok" /\ sends[i].update = "error" =>
       sends'[i].thrown = "updateResult.error"
  /\ messages' = messages /\ conversations' = conversations
  /\ sends[i].insert = "ok" => RowStored(i)

\* C11: sendMessage issues both the insert and the last_message update and
\* waits for both; it throws exactly when one of the two failed, with the
\* error of that one, and throwing undoes nothing: the store is as the two
\* requests left it, a row the insert stored stays stored.  No step ever
\* removes a message row.
C11_BothIssuedNoRollback ==
  [][/\ messages \subseteq messages'
     /\ \A i \in 1..Len(sends) :
          sends[i].state = "awaiting" /\ sends'[i].state # "awaiting" => C11_AtReturn(i)]_vars

\* a call threw the update's error while the row it inserted is in the store
\* and last_message of its conversation is not its content
C11_Witness ==
  \E i \in 1..Len(sends) :
    /\ sends[i].state = "threw" /\ sends[i].thrown = "updateResult.error"
    /\ sends[i].insert = "ok"
    /\ \E m \in messages : m.id = sends[i].row /\ m.content = sends[i].content
    /\ conversations[sends[i].conv] # sends[i].content

\* what holds at a step of createConversation, refusedWith being the errors a
\* call without a session can fail with
C18_Step(refusedWith) ==
  Len(creates') = Len(creates) + 1 =>
    LET c == creates'[Len(creates')] IN
    /\ c.uid = session
    /\ session = NoUser =>
         c.state = "threw" /\ c.error \in refusedWith
    /\ c.state = "threw" => conversations' = conversations /\ owner' = owner
    /\ c.state = "returned" =>
         /\ session # NoUser
         /\ c.data.id \notin DOMAIN conversations
         /\ DOMAIN conversations' = DOMAIN conversations \cup {c.data.id}
         /\ DOMAIN owner' = DOMAIN conversations'
         /\ \A k \in DOMAIN conversations :
              conversations'[k] = conversations[k] /\ owner'[k] = owner[k]
         /\ owner'[c.data.id] = session
         /\ c.data = [id |-> c.data.id, user_id |-> owner'[c.data.id],
                      last_message |-> conversations'[c.data.id]]

C19_InvalidCall ==
  (Len(calls') = Len(calls) + 1 /\ ~ValidArguments(Last(calls'))) =>
     /\ requests' = requests
     /\ authRequest' = authRequest
     /\ Last(calls').on = 0
     /\ Last(calls').state = "settled"
     /\ Last(calls').res \in
          {Rejected("Email and password are required"),
           Rejected("Password must be at least 6 characters long")}

\* C19: a signUp with an empty email or password or a password shorter than
\* six characters, and a signIn with an empty email or password, is rejected
\* at the call: no upstream request is issued, and the outstanding coalesced
\* request is neither created nor altered.
C19_RejectedBeforeNetwork == [][C19_InvalidCall]_vars

\* a signUp with a password of five characters was rejected while a request
\* is outstanding, and that request is still the outstanding one
C19_Witness ==
  \E c \in 1..Len(calls) :
    /\ calls[c].fn = "signUp" /\ calls[c].email # "" /\ calls[c].pwlen = 5
    /\ calls[c].res = Rejected("Password must be at least 6 characters long")
    /\ authRequest # 0 /\ requests[authRequest].stage = "upstream"
    /\ \E b \in 1..(c - 1) : calls[b].on = authRequest

\* ---------------------------------------------------------------------------
\* The client: the zustand store (useChatStore) and the effects and handlers
\* of the App component that drive it.  A handler runs to completion: the
\* store calls it makes are queued in pendingSets and applied one by one, each
\* an observable transition of the store, before anything else runs.
\* ---------------------------------------------------------------------------

\* most sign-ins, clicks on a conversation and clicks on New Chat in one run
MaxUserActions == 3

\* most message rows inserted in one run
MaxInserts == 2

\* the contents of the rows inserted while the client runs
InsertedTexts == {<<"hello">>}

\* the conversations in the order of their creation, newest first
ConvOrder == <<"c5", "c4", "c3", "c2", "c1">>

\* a Conversation object of the client
Conversation(id, lastMessage) == [id |-> id, last_message |-> lastMessage]

\* what getConversations resolves with: the rows the user the request was
\* made for may see, order('updated_at', { ascending: false })
getConversations(uid) ==
  LET visible == SelectSeq(ConvOrder, LAMBDA c : MayAccess(uid, c))
  IN  [k \in 1..Len(visible) |-> Conversation(visible[k], conversations[visible[k]])]

\* a call of a store function the running handler has still to make
SetCall(op, arg) == [op |-> op, arg |-> arg]

\* the sequence without its i-th element
RemoveAt(seq, i) == [k \in 1..(Len(seq) - 1) |-> IF k < i THEN seq[k] ELSE seq[k + 1]]

\* what the client leaves alone
serverVars == <<adapterVars, authVars, sends, creates>>
uiVars == <<errorBanner, channels, cleanup, nextChan, events, msgFetches, convFetches, newChats, userActions>>

\* setUser: (user) => set({ user, isAuthenticated: !!user })
setUser ==
  /\ pendingSets # <<>> /\ Head(pendingSets).op = "setUser"
  /\ user' = Head(pendingSets).arg
  /\ isAuthenticated' = (Head(pendingSets).arg # NoUser)
  /\ pendingSets' = Tail(pendingSets)
  /\ UNCHANGED <<chatConversations, currentConversation, chatMessages, effectDue>>
  /\ UNCHANGED <<appVars, serverVars, uiVars, conversations, messages, clock, owner, session>>

\* setIsAuthenticated: (value) => set({ isAuthenticated: value })
setIsAuthenticated ==
  /\ pendingSets # <<>> /\ Head(pendingSets).op = "setIsAuthenticated"
  /\ isAuthenticated' = Head(pendingSets).arg
  /\ pendingSets' = Tail(pendingSets)
  /\ UNCHANGED <<user, chatConversations, currentConversation, chatMessages, effectDue>>
  /\ UNCHANGED <<appVars, serverVars, uiVars, conversations, messages, clock, owner, session>>

\* setConversations: (conversations) => set({ conversations })
setConversations ==
  /\ pendingSets # <<>> /\ Head(pendingSets).op = "setConversations"
  /\ chatConversations' = Head(pendingSets).arg
  /\ pendingSets' = Tail(pendingSets)
  /\ UNCHANGED <<user, isAuthenticated, currentConversation, chatMessages, effectDue>>
  /\ UNCHANGED <<appVars, serverVars, uiVars, conversations, messages, clock, owner, session>>

\* setCurrentConversation: (conversation) => set({ currentConversation: conversation });
\* the effect on [currentConversation] is due when the value has changed
setCurrentConversation ==
  /\ pendingSets # <<>> /\ Head(pendingSets).op = "setCurrentConversation"
  /\ currentConversation' = Head(pendingSets).arg
  /\ effectDue' = (effectDue \/ Head(pendingSets).arg # currentConversation)
  /\ pendingSets' = Tail(pendingSets)
  /\ UNCHANGED <<user, isAuthenticated, chatConversations, chatMessages>>
  /\ UNCHANGED <<appVars, serverVars, uiVars, conversations, messages, clock, owner, session>>

\* setMessages: (messages) => set({ messages })
setMessages ==
  /\ pendingSets # <<>> /\ Head(pendingSets).op = "setMessages"
  /\ chatMessages' = Head(pendingSets).arg
  /\ pendingSets' = Tail(pendingSets)
  /\ UNCHANGED <<user, isAuthenticated, chatConversations, currentConversation, effectDue>>
  /\ UNCHANGED <<appVars, serverVars, uiVars, conversations, messages, clock, owner, session>>

\* an addMessage that sets last_message of every conversation
addMessage_EveryConversation ==
  /\ pendingSets # <<>> /\ Head(pendingSets).op = "addMessage"
  /\ LET message == Head(pendingSets).arg IN
       /\ chatMessages' = Append(chatMessages, message)
       /\ chatConversations' =
            [k \in 1..Len(chatConversations) |->
               [chatConversations[k] EXCEPT !.last_message = message.content]]
  /\ pendingSets' = Tail(pendingSets)
  /\ UNCHANGED <<user, isAuthenticated, currentConversation, effectDue>>
  /\ UNCHANGED <<appVars, serverVars, uiVars, conversations, messages, clock, owner, session>>

\* addMessage: messages: [...state.messages, message], conversations:
\* state.conversations.map(conv => conv.id === message.conversation_id
\*   ? { ...conv, last_message: message.content } : conv)
addMessage ==
  /\ pendingSets # <<>> /\ Head(pendingSets).op = "addMessage"
  /\ LET message == Head(pendingSets).arg IN
       /\ chatMessages' = Append(chatMessages, message)
       /\ chatConversations' =
            [k \in 1..Len(chatConversations) |->
               IF chatConversations[k].id = message.conversation_id
               THEN [chatConversations[k] EXCEPT !.last_message = message.content]
               ELSE chatConversations[k]]
  /\ pendingSets' = Tail(pendingSets)
  /\ UNCHANGED <<user, isAuthenticated, currentConversation, effectDue>>
  /\ UNCHANGED <<appVars, serverVars, uiVars, conversations, messages, clock, owner, session>>

\* onAuthStateChange, SIGNED_IN, from the point at which the profile query has
\* resolved (with the profile, or with data null when it failed):
\* setUser(profile); setIsAuthenticated(true); getConversations().then(...)
authStateSignedIn(profile) ==
  /\ pendingSets = <<>> /\ session = NoUser /\ userActions < MaxUserActions
  /\ userActions' = userActions + 1
  /\ session' = "u1"
  /\ pendingSets' = <<SetCall("setUser", profile), SetCall("setIsAuthenticated", TRUE)>>
  /\ convFetches' = Append(convFetches, session')
  /\ UNCHANGED <<storeVars, errorBanner, effectDue, channels, cleanup, nextChan, events,
                 msgFetches, newChats>>
  /\ UNCHANGED <<appVars, serverVars, conversations, messages, clock, owner>>

\* onAuthStateChange, SIGNED_OUT: five store calls in a row
authStateSignedOut ==
  /\ pendingSets = <<>> /\ ~effectDue /\ session # NoUser
  /\ session' = NoUser
  /\ pendingSets' = <<SetCall("setUser", NoUser), SetCall("setIsAuthenticated", FALSE),
                      SetCall("setCurrentConversation", NoConversation),
                      SetCall("setMessages", <<>>), SetCall("setConversations", <<>>)>>
  /\ UNCHANGED <<storeVars, uiVars, effectDue>>
  /\ UNCHANGED <<appVars, serverVars, conversations, messages, clock, owner>>

\* getConversations().then(setConversations): the oldest query in flight,
\* made with the token of the session it was started in, resolves and the
\* list is stored, or it fails and nothing handles the rejection
getConversationsSettles ==
  /\ pendingSets = <<>> /\ convFetches # <<>>
  /\ convFetches' = Tail(convFetches)
  /\ \/ pendingSets' = <<SetCall("setConversations", getConversations(Head(convFetches)))>>
     \/ UNCHANGED pendingSets
  /\ UNCHANGED <<storeVars, errorBanner, effectDue, channels, cleanup, nextChan, events,
                 msgFetches, newChats, userActions>>
  /\ UNCHANGED <<appVars, serverVars, conversations, messages, clock, owner, session>>

\* onClick={() => setCurrentConversation(conversation)} on the k-th entry of
\* the sidebar
selectConversation(k) ==
  /\ pendingSets = <<>> /\ ~effectDue
  /\ k \in 1..Len(chatConversations)
  /\ userActions < MaxUserActions
  /\ userActions' = userActions + 1
  /\ pendingSets' = <<SetCall("setCurrentConversation", chatConversations[k])>>
  /\ UNCHANGED <<storeVars, errorBanner, channels, cleanup, nextChan, events, msgFetches,
                 convFetches, newChats, effectDue>>
  /\ UNCHANGED <<appVars, serverVars, conversations, messages, clock, owner, session>>

\* the channel the cleanup of the effect's last run unsubscribes
Disposed == {ch \in channels : ch.id = cleanup}

\* an effect that returns no cleanup
currentConversationEffect_NoCleanup ==
  /\ effectDue /\ pendingSets = <<>>
  /\ effectDue' = FALSE
  /\ IF currentConversation # NoConversation
     THEN /\ msgFetches' = Append(msgFetches, [conv |-> currentConversation.id,
                                                  uid |-> session])
          /\ nextChan' = nextChan + 1
          /\ channels' = channels \cup {[id |-> nextChan', conv |-> currentConversation.id]}
          /\ cleanup' = nextChan'
          /\ UNCHANGED <<pendingSets, events>>
     ELSE /\ pendingSets' = <<SetCall("setMessages", <<>>)>>
          /\ cleanup' = 0
          /\ UNCHANGED <<msgFetches, nextChan, channels, events>>
  /\ UNCHANGED <<storeVars, errorBanner, convFetches, newChats, userActions>>
  /\ UNCHANGED <<appVars, serverVars, conversations, messages, clock, owner, session>>

\* useEffect(..., [currentConversation]): React first runs the cleanup of the
\* last run (channel.unsubscribe(), after which the channel's callback is not
\* called), then the effect: with a conversation it starts getMessages and
\* subscribes a new channel, without one it calls setMessages([])
currentConversationEffect ==
  /\ effectDue /\ pendingSets = <<>>
  /\ effectDue' = FALSE
  /\ events' = {e \in events : e.chan # cleanup}
  /\ IF currentConversation # NoConversation
     THEN /\ msgFetches' = Append(msgFetches, [conv |-> currentConversation.id,
                                                  uid |-> session])
          /\ nextChan' = nextChan + 1
          /\ channels' = (channels \ Disposed) \cup
                           {[id |-> nextChan', conv |-> currentConversation.id]}
          /\ cleanup' = nextChan'
          /\ UNCHANGED pendingSets
     ELSE /\ pendingSets' = <<SetCall("setMessages", <<>>)>>
          /\ channels' = channels \ Disposed
          /\ cleanup' = 0
          /\ UNCHANGED <<msgFetches, nextChan>>
  /\ UNCHANGED <<storeVars, errorBanner, convFetches, newChats, userActions>>
  /\ UNCHANGED <<appVars, serverVars, conversations, messages, clock, owner, session>>

\* getMessages(id).then(setMessages): the i-th query in flight, made with the
\* token of the session it was started in, resolves with the rows that user
\* may see and the list is stored, or it fails and nothing handles the
\* rejection
getMessagesSettles(i) ==
  /\ pendingSets = <<>> /\ i \in 1..Len(msgFetches)
  /\ msgFetches' = RemoveAt(msgFetches, i)
  /\ \/ pendingSets' = <<SetCall("setMessages",
                                 IF MayAccess(msgFetches[i].uid, msgFetches[i].conv)
                                 THEN getMessages(msgFetches[i].conv) ELSE <<>>)>>
     \/ UNCHANGED pendingSets
  /\ UNCHANGED <<storeVars, errorBanner, effectDue, channels, cleanup, nextChan, events,
                 convFetches, newChats, userActions>>
  /\ UNCHANGED <<appVars, serverVars, conversations, messages, clock, owner, session>>

\* a row is inserted into the messages table (by a sendMessage of this or of
\* another client of the user); each channel subscribed with the filter
\* conversation_id=eq.<id> is sent the INSERT payload
messageInserted(conversationId, content) ==
  /\ clock < MaxInserts /\ conversationId \in DOMAIN conversations
  /\ clock' = clock + 1
  /\ LET row == [id |-> clock', conversation_id |-> conversationId, content |-> content,
                 role |-> "user", created_at |-> clock']
     IN  /\ messages' = messages \cup {row}
         /\ events' = events \cup {[chan |-> ch.id, message |-> row] :
                                     ch \in {x \in channels : x.conv = conversationId}}
  /\ UNCHANGED <<storeVars, errorBanner, pendingSets, effectDue, channels, cleanup, nextChan,
                 msgFetches, convFetches, newChats, userActions>>
  /\ UNCHANGED <<appVars, serverVars, conversations, owner, session>>

\* (payload) => callback(payload.new as Message), the callback being
\* (message) => { addMessage(message); }
realtimeDelivers ==
  /\ pendingSets = <<>>
  /\ \E e \in events :
       /\ events' = events \ {e}
       /\ pendingSets' = <<SetCall("addMessage", e.message)>>
  /\ UNCHANGED <<storeVars, errorBanner, effectDue, channels, cleanup, nextChan,
                 msgFetches, convFetches, newChats, userActions>>
  /\ UNCHANGED <<appVars, serverVars, conversations, messages, clock, owner, session>>

\* handleNewChat up to its await: nothing but the auth modal without
\* isAuthenticated; else createConversation is called, conversations being
\* the list of the render the handler was made in
handleNewChat ==
  /\ pendingSets = <<>> /\ isAuthenticated
  /\ userActions < MaxUserActions
  /\ userActions' = userActions + 1
  /\ newChats' = Append(newChats, chatConversations)
  /\ UNCHANGED <<storeVars, errorBanner, pendingSets, effectDue, channels, cleanup, nextChan,
                 events, msgFetches, convFetches>>
  /\ UNCHANGED <<appVars, serverVars, conversations, messages, clock, owner, session>>

\* handleNewChat after its await: createConversation has returned the row
\* (setCurrentConversation, setConversations([new, ...conversations]),
\* setMessages([])) or has thrown (setError)
createConversationSettles ==
  /\ pendingSets = <<>> /\ ~effectDue /\ newChats # <<>>
  /\ createConversationRequest
  /\ newChats' = Tail(newChats)
  /\ LET result == creates'[Len(creates')]
         newConversation == Conversation(result.data.id, result.data.last_message)
     IN  IF result.state = "returned"
         THEN /\ pendingSets' =
                   <<SetCall("setCurrentConversation", newConversation),
                     SetCall("setConversations", <<newConversation>> \o Head(newChats)),
                     SetCall("setMessages", <<>>)>>
              /\ UNCHANGED errorBanner
         ELSE /\ errorBanner' = "Failed to create new chat. Please try again."
              /\ UNCHANGED pendingSets
  /\ UNCHANGED <<storeVars, effectDue, channels, cleanup, nextChan, events, msgFetches,
                 convFetches, userActions>>
  /\ UNCHANGED <<appVars, adapterVars, authVars, sends, messages, clock, session>>

\* the component has mounted without a session: the store has the user's
\* conversations, the effect on [currentConversation] has its first run due
ClientInit ==
  /\ AdapterIdle
  /\ AppIdle
  /\ AuthIdle
  /\ conversations = [c \in ConvIds |-> NoMessage]
  /\ owner = [c \in ConvIds |-> "u1"]
  /\ messages = {}
  /\ clock = 0
  /\ sends = <<>>
  /\ creates = <<>>
  /\ session = NoUser
  /\ user = NoUser
  /\ isAuthenticated = FALSE
  /\ chatConversations = <<>>
  /\ currentConversation = NoConversation
  /\ chatMessages = <<>>
  /\ errorBanner = ""
  /\ pendingSets = <<>>
  /\ effectDue = TRUE
  /\ channels = {}
  /\ cleanup = 0
  /\ nextChan = 0
  /\ events = {}
  /\ msgFetches = <<>>
  /\ convFetches = <<>>
  /\ newChats = <<>>
  /\ userActions = 0

ClientNext ==
  \/ setUser
  \/ setIsAuthenticated
  \/ setConversations
  \/ setCurrentConversation
  \/ setMessages
  \/ addMessage
  \/ \E profile \in {"u1", NoUser} : authStateSignedIn(profile)
  \/ authStateSignedOut
  \/ getConversationsSettles
  \/ \E k \in 1..Len(ConvOrder) : selectConversation(k)
  \/ currentConversationEffect
  \/ \E i \in 1..MaxUserActions : getMessagesSettles(i)
  \/ \E c \in ConvIds, t \in InsertedTexts : messageInserted(c, t)
  \/ realtimeDelivers
  \/ handleNewChat
  \/ createConversationSettles

ClientSpec == ClientInit /\ [][ClientNext]_vars

\* no handler is running and no effect is due: what the user looks at
Settled == pendingSets = <<>> /\ ~effectDue

\* C12: the message list corresponds to the selected conversation: every
\* message in it has the conversation_id of currentConversation, and it is
\* empty when no conversation is selected, whatever the order of selections,
\* message-fetch completions and realtime deliveries.
C12_ListOfCurrentConversation ==
  Settled =>
    /\ currentConversation = NoConversation => chatMessages = <<>>
    /\ \A k \in 1..Len(chatMessages) :
         chatMessages[k].conversation_id = currentConversation.id

\* C13: after a switch to conversation B the message list never holds
\* messages of B together with messages of another conversation.
C13_NeverAMix ==
  (Settled /\ currentConversation # NoConversation) =>
    ~ \E j, k \in 1..Len(chatMessages) :
        /\ chatMessages[j].conversation_id = currentConversation.id
        /\ chatMessages[k].conversation_id # currentConversation.id

\* at most one channel is subscribed, and a payload is on its way only to a
\* subscribed channel of its conversation
C14_AtMostOneChannel ==
  /\ Cardinality(channels) <= 1
  /\ \A e \in events :
       \E ch \in channels : ch.id = e.chan /\ ch.conv = e.message.conversation_id

\* the step that subscribes a channel leaves it the only one, and a callback
\* that appends a message is one of a subscribed channel
C14_DisposedFirst ==
  /\ nextChan' # nextChan =>
       channels' = {[id |-> nextChan', conv |-> currentConversation.id]}
  /\ (pendingSets = <<>> /\ pendingSets' # <<>> /\ Head(pendingSets').op = "addMessage") =>
       \E e \in events :
         /\ e.message = Head(pendingSets').arg
         /\ \E ch \in channels : ch.id = e.chan

\* C14: when the current conversation changes, the subscription of the
\* previous one is disposed before the new one is established: at most one
\* message subscription is active at any time, and no callback of a disposed
\* subscription appends to the message list.
C14_OneSubscription == []C14_AtMostOneChannel /\ [][C14_DisposedFirst]_vars

\* the second channel is the only one subscribed, while the list still shows a
\* message of the conversation selected before
C14_Witness ==
  /\ nextChan = 2
  /\ channels = {[id |-> 2, conv |-> currentConversation.id]}
  /\ \E k \in 1..Len(chatMessages) :
       chatMessages[k].conversation_id # currentConversation.id

\* C15: the message list never has two entries with the same message id,
\* also when a delivered message is one the history fetch returned as well.
C15_NoDuplicateIds ==
  Settled =>
    \A j, k \in 1..Len(chatMessages) :
      j # k => chatMessages[j].id # chatMessages[k].id

\* C16: setUser(null) is one atomic logout transition: in the state it leads
\* to, user is null, the authentication flag is false, the current
\* conversation is null and the message list and conversation list are empty.
C16_AtomicLogout ==
  [][(/\ pendingSets # <<>>
      /\ Head(pendingSets).op = "setUser"
      /\ Head(pendingSets).arg = NoUser
      /\ pendingSets' = Tail(pendingSets)) =>
       /\ user' = NoUser
       /\ isAuthenticated' = FALSE
       /\ currentConversation' = NoConversation
       /\ chatMessages' = <<>>
       /\ chatConversations' = <<>>]_vars

\* what holds at a step of addMessage
C17_AddMessageStep ==
  (/\ pendingSets # <<>>
   /\ Head(pendingSets).op = "addMessage"
   /\ pendingSets' = Tail(pendingSets)) =>
    LET m == Head(pendingSets).arg IN
    /\ chatMessages' = Append(chatMessages, m)
    /\ Len(chatConversations') = Len(chatConversations)
    /\ \A k \in 1..Len(chatConversations) :
         /\ chatConversations'[k].id = chatConversations[k].id
         /\ chatConversations'[k].last_message =
              IF chatConversations[k].id = m.conversation_id
              THEN m.content ELSE chatConversations[k].last_message
    /\ UNCHANGED <<user, isAuthenticated, currentConversation, errorBanner>>

\* C17: addMessage(m) in one transition appends m as the last element of the
\* message list and sets last_message of the conversation with id
\* m.conversation_id to m.content; every other conversation, the order of the
\* conversation list and the other fields of the state are unchanged.
C17_AddMessageFrame == [][C17_AddMessageStep]_vars

\* a message was appended: it is last in the list, its conversation has its
\* content as last_message and the other conversation of the list has none
C17_Witness ==
  /\ pendingSets = <<>> /\ chatMessages # <<>> /\ Len(chatConversations) = 2
  /\ LET m == chatMessages[Len(chatMessages)] IN
     \E j, k \in 1..2 :
       /\ chatConversations[j].id = m.conversation_id
       /\ chatConversations[j].last_message = m.content
       /\ chatConversations[k].id # m.conversation_id
       /\ chatConversations[k].last_message = NoMessage

\* createConversation has thrown in handleNewChat at this step
CreateChatFailed == Len(newChats') < Len(newChats) /\ pendingSets' = <<>>

\* getMessages has thrown at this step
LoadHistoryFailed == Len(msgFetches') < Len(msgFetches) /\ pendingSets' = <<>>

\* C20: a store error while creating a chat or while loading the message
\* history of a conversation shows the error banner and leaves the
\* conversation list, the current conversation and the message list as
\* they were.
C20_BannerOnStoreError ==
  [][(CreateChatFailed \/ LoadHistoryFailed) =>
       /\ errorBanner' # ""
       /\ UNCHANGED <<chatConversations, currentConversation, chatMessages>>]_vars

\* the part of C20 that holds: a store error while creating a chat
C20_HoldsForNewChat ==
  [][CreateChatFailed =>
       /\ errorBanner' = "Failed to create new chat. Please try again."
       /\ UNCHANGED <<chatConversations, currentConversation, chatMessages>>]_vars

\* the slot holds no settled request
C29_SlotFree ==
  authRequest # 0 => requests[authRequest].stage # "settled"

\* the step at which a request settles empties the slot, and a valid call
\* made with the slot empty starts a request of its own
C29_ResetAndFresh ==
  /\ (\E r \in 1..Len(requests) :
        requests[r].stage # "settled" /\ requests'[r].stage = "settled") =>
       authRequest' = 0
  /\ (/\ Len(calls') = Len(calls) + 1
      /\ ValidArguments(Last(calls'))
      /\ Unsettled = {}) =>
       /\ Len(requests') = Len(requests) + 1
       /\ Last(calls').on = Len(requests')
       /\ authRequest' = Len(requests')
       /\ requests'[Len(requests')].stage = "upstream"
       /\ requests'[Len(requests')].fn = Last(calls').fn

\* C29: the coalescing slot never stays occupied by a settled request: when
\* the outstanding signIn or signUp request settles, with success or with
\* failure, authRequest is reset to null, and the next signIn or signUp call
\* issues a fresh upstream request.
C29_SlotReset == []C29_SlotFree /\ [][C29_ResetAndFresh]_vars

\* a first request has settled with a failure and a later call was given a
\* second request, which is the one in the slot
C29_Witness ==
  /\ Len(requests) = 2
  /\ requests[1].stage = "settled" /\ ~requests[1].res.ok
  /\ requests[2].stage = "upstream" /\ authRequest = 2
  /\ \E c \in 1..Len(calls) : calls[c].on = 2

\* the loop body of streamDeepseekResponse over the lines of one chunk, from
\* the accumulator acc and the snapshots snaps yielded so far
RECURSIVE ProcessLines(_, _, _)
ProcessLines(ls, acc, snaps) ==
  IF ls = <<>> THEN [out |-> snaps, acc |-> acc, threw |-> FALSE]
  ELSE IF ~StartsWithData(Head(ls)) THEN ProcessLines(Tail(ls), acc, snaps)
  ELSE IF ParseDelta(Head(ls)).ok
  THEN ProcessLines(Tail(ls), acc \o ParseDelta(Head(ls)).content,
                    Append(snaps, Snapshot(acc \o ParseDelta(Head(ls)).content, FALSE)))
  ELSE [out |-> Append(snaps, CatchSnapshot(SyntaxError)), acc |-> acc, threw |-> TRUE]

\* what streamDeepseekResponse yields when the whole stream arrives in one read
WholeStreamSnapshots(bytes) ==
  LET r == ProcessLines(Lines(bytes), <<>>, <<>>)
  IN  IF r.threw THEN r.out ELSE Append(r.out, Snapshot(r.acc, TRUE))

\* C25: the snapshots of the event-frame adapter depend only on the raw byte
\* stream split on newlines, not on its division into read chunks: however the
\* frame sequence is cut into reads, a frame cut in two included, the
\* snapshots are those of the undivided stream, one after every data frame.
C25_PartitionIndependent ==
  (/\ call = "stream" /\ model = "deepseek-chat" /\ pc = "done"
   /\ failure \in {NoFailure, SyntaxError}) =>
    out = WholeStreamSnapshots(raw)

\* what C25 asks for does hold over the partitions that cut between frames
C25_HoldsOnWholeFrames ==
  (/\ call = "stream" /\ model = "deepseek-chat" /\ pc = "done"
   /\ failure \in {NoFailure, SyntaxError} /\ ~splitRead) =>
    out = WholeStreamSnapshots(raw)

\* C27: the authentication flag agrees with the user field: isAuthenticated is
\* true exactly when user is non-null, whatever SIGNED_IN events (one whose
\* profile lookup returns no row included) and SIGNED_OUT events arrive.
C27_FlagAgreesWithUser ==
  pendingSets = <<>> => (isAuthenticated <=> user # NoUser)

\* C28: after SIGNED_OUT has been handled and until the next SIGNED_IN the
\* conversation list and the message list are empty and the current
\* conversation is null: no completion of something started before the
\* sign-out (conversation-list fetch, message fetch, realtime delivery)
\* fills them again.
C28_EmptyWhileSignedOut ==
  (Settled /\ session = NoUser) =>
    /\ chatConversations = <<>>
    /\ chatMessages = <<>>
    /\ currentConversation = NoConversation

(***************************************************************************)
(* App: the sign-in form (validateForm, handleAuth and its timer)          *)
(***************************************************************************)
\* most submissions of the form in one run
MaxAttempts == 2

\* what the callback of setTimeout(..., 10000) reports after the wait budget
TimeoutMessage == "Authentication is taking longer than expected. Please try again."

\* validateForm: the message it reports, "" when the form is valid
validateForm(email, pwlen, registering) ==
  IF email = "" THEN "Email is required"
  ELSE IF pwlen = 0 THEN "Password is required"
  ELSE IF registering /\ pwlen < MinPasswordLength
  THEN "Password must be at least 6 characters long"
  ELSE ""

\* a handleAuth call awaiting the promise signIn / signUp returned
Attempt(c) == [call |-> c, state |-> "awaiting", timedOut |-> FALSE, ok |-> FALSE]

\* the form is submitted (the button is disabled while loading): an invalid
\* form is reported; a valid one clears the timer, arms a new one and calls
\* signUp or signIn up to the await
handleAuth(email, pwlen, registering) ==
  /\ showAuthModal /\ ~loading
  /\ Len(attempts) < MaxAttempts
  /\ IF validateForm(email, pwlen, registering) # ""
     THEN /\ errorBanner' = validateForm(email, pwlen, registering)
          /\ UNCHANGED <<authVars, loading, authTimeout, attempts>>
     ELSE /\ errorBanner' = ""
          /\ loading' = TRUE
          /\ authTimeout' = Len(attempts) + 1
          /\ IF registering THEN signUpCall(email, pwlen) ELSE signInCall(email, pwlen)
          /\ attempts' = Append(attempts, Attempt(Len(calls')))
  /\ UNCHANGED <<showAuthModal, messageInput, isSending, streamingContent, handler, titles>>
  /\ UNCHANGED <<adapterVars, relayVars, storeVars, pendingSets, effectDue, channels, cleanup,
                 nextChan, events, msgFetches, convFetches, newChats, userActions>>

\* a continuation of handleAuth is ready to run (it runs before any timer)
ContinuationReady ==
  \E i \in 1..Len(attempts) :
    attempts[i].state = "awaiting" /\ calls[attempts[i].call].state = "settled"

\* the timer's callback: the budget has passed and no handleAuth has cleared
\* the timer
authTimeoutFires ==
  /\ authTimeout # 0
  /\ ~ContinuationReady
  /\ errorBanner' = TimeoutMessage
  /\ loading' = FALSE
  /\ authTimeout' = 0
  /\ attempts' = [attempts EXCEPT ![authTimeout].timedOut = TRUE]
  /\ UNCHANGED <<showAuthModal, messageInput, isSending, streamingContent, handler, titles>>
  /\ UNCHANGED <<adapterVars, authVars, relayVars, storeVars, pendingSets, effectDue, channels,
                 cleanup, nextChan, events, msgFetches, convFetches, newChats, userActions>>

\* the awaited promise has settled: the rest of the try block or the catch
\* block, then finally, which clears the timer that is armed now
handleAuthResumes(i) ==
  /\ attempts[i].state = "awaiting"
  /\ calls[attempts[i].call].state = "settled"
  /\ LET res == calls[attempts[i].call].res
     IN  /\ IF res.ok
            THEN showAuthModal' = FALSE /\ errorBanner' = ""
            ELSE errorBanner' = res.val /\ UNCHANGED showAuthModal
         /\ attempts' = [attempts EXCEPT ![i].state = "done", ![i].ok = res.ok]
  /\ authTimeout' = 0
  /\ loading' = FALSE
  /\ UNCHANGED <<messageInput, isSending, streamingContent, handler, titles>>
  /\ UNCHANGED <<adapterVars, authVars, relayVars, storeVars, pendingSets, effectDue, channels,
                 cleanup, nextChan, events, msgFetches, convFetches, newChats, userActions>>

\* the sign-in form is open and empty, nobody is signed in
AuthFormInit ==
  /\ AdapterIdle
  /\ RelayIdle
  /\ AuthIdle
  /\ user = NoUser
  /\ isAuthenticated = FALSE
  /\ chatConversations = <<>>
  /\ currentConversation = NoConversation
  /\ chatMessages = <<>>
  /\ errorBanner = ""
  /\ pendingSets = <<>>
  /\ effectDue = FALSE
  /\ channels = {}
  /\ cleanup = 0
  /\ nextChan = 0
  /\ events = {}
  /\ msgFetches = <<>>
  /\ convFetches = <<>>
  /\ newChats = <<>>
  /\ userActions = 0
  /\ loading = FALSE
  /\ showAuthModal = TRUE
  /\ authTimeout = 0
  /\ attempts = <<>>
  /\ messageInput = <<>>
  /\ isSending = FALSE
  /\ streamingContent = <<>>
  /\ handler = NoHandler
  /\ titles = [c \in {} |-> <<>>]

AuthFormNext ==
  \/ \E email \in Emails, pwlen \in PasswordLengths, registering \in BOOLEAN :
       handleAuth(email, pwlen, registering)
  \/ authTimeoutFires
  \/ \E i \in 1..Len(attempts) : handleAuthResumes(i)
  \/ \E r \in 1..Len(requests) : signInSettles(r)
  \/ \E r \in 1..Len(requests) : signUpSettles(r)
  \/ \E r \in 1..Len(requests) : profileInsertSettles(r)
  \/ \E c \in 1..Len(calls) : callSettles(c)

AuthFormSpec == AuthFormInit /\ [][AuthFormNext]_vars

\* C24: when the wait budget of an attempt expires the loading flag becomes
\* false and the timeout error is reported, and the later completion of an
\* attempt that has timed out neither closes the form nor clears a reported
\* error
C24_LateCompletionIsNoSuccess ==
  [][/\ (authTimeout # 0 /\ authTimeout' = 0 /\ attempts'[authTimeout].timedOut) =>
          (~loading' /\ errorBanner' = TimeoutMessage)
     /\ \A i \in 1..Len(attempts) :
          (attempts[i].timedOut /\ attempts[i].state = "awaiting"
             /\ attempts'[i].state = "done") =>
            /\ showAuthModal' = showAuthModal
            /\ errorBanner # "" => errorBanner' # ""]_vars

\* the part of C24 about the expiry itself
C24_ExpiryReported ==
  [][(authTimeout # 0 /\ authTimeout' = 0 /\ attempts'[authTimeout].timedOut) =>
       (~loading' /\ errorBanner' = TimeoutMessage)]_vars

(***************************************************************************)
(* App: generateTitle and handleSendMessage                                *)
(***************************************************************************)
\* most words of a typed message
MaxWords == 5

\* content.split(' ').slice(0, 4): the words a title keeps
TitleWords == 4

Ellipsis == <<".", ".", ".">>

\* n words with one space between them
RECURSIVE Sentence(_)
Sentence(n) ==
  IF n = 1 THEN <<"a">>
  ELSE Sentence(n - 1) \o <<" ", IF n % 2 = 0 THEN "b" ELSE "a">>

\* what the user can have typed into the message box
InputTexts ==
  {Sentence(n) : n \in 1..MaxWords} \cup {<<>>, <<" ">>, <<" ", "a", " ">>, <<"a", " ", " ", "b">>}

\* text.trim()
RECURSIVE Trim(_)
Trim(text) ==
  IF text = <<>> THEN <<>>
  ELSE IF Head(text) = " " THEN Trim(Tail(text))
  ELSE IF text[Len(text)] = " " THEN Trim(SubSeq(text, 1, Len(text) - 1))
  ELSE text

\* content.split(' ')
RECURSIVE SplitOnSpace(_)
SplitOnSpace(content) ==
  IF \A i \in 1..Len(content) : content[i] # " " THEN <<content>>
  ELSE LET i == CHOOSE j \in 1..Len(content) :
                  content[j] = " " /\ \A k \in 1..(j - 1) : content[k] # " "
       IN  <<SubSeq(content, 1, i - 1)>> \o SplitOnSpace(SubSeq(content, i + 1, Len(content)))

\* words.join(' ')
RECURSIVE JoinWithSpace(_)
JoinWithSpace(words) ==
  IF words = <<>> THEN <<>>
  ELSE IF Len(words) = 1 THEN words[1]
  ELSE words[1] \o <<" ">> \o JoinWithSpace(Tail(words))

\* .slice(0, n)
Slice(s, n) == SubSeq(s, 1, IF Len(s) < n THEN Len(s) ELSE n)

\* words.join(' ') + (words.length >= 4 ? '...' : '')
generateTitle(content) ==
  LET words == Slice(SplitOnSpace(content), TitleWords)
  IN  JoinWithSpace(words) \o (IF Len(words) >= TitleWords THEN Ellipsis ELSE <<>>)

SendFailedMessage == "Failed to send message. Please try again."
AIFailedMessage == "Failed to get AI response. Please try again."

\* accumulatedContent after the first i deltas
RECURSIVE Accumulated(_, _)
Accumulated(deltas, i) == IF i = 0 THEN <<>> ELSE Accumulated(deltas, i - 1) \o deltas[i]

\* the snapshots streamAIResponse yields: the accumulator after each delta
\* with done=false, then the accumulator with done=true, or, when the try
\* block throws e after these deltas, the catch block's snapshot
StreamOf(deltas, e) ==
  [i \in 1..Len(deltas) |-> Snapshot(Accumulated(deltas, i), FALSE)]
    \o <<IF e = NoFailure THEN Snapshot(Accumulated(deltas, Len(deltas)), TRUE)
         ELSE CatchSnapshot(e)>>

\* the streams of a run
Streams ==
  {StreamOf(deltas, e) : deltas \in SeqsUpTo({<<"a">>}, MaxFrames), e \in {NoFailure, NetworkError}}

\* the frame of a handleSendMessage call at its first await
Frame(conversationId, text, first, send) ==
  [pc |-> "userSend", conv |-> conversationId, text |-> text, first |-> first, send |-> send,
   answer |-> 0, stream |-> <<>>, seen |-> <<>>, finalContent |-> <<>>, requested |-> FALSE,
   left |-> FALSE]

\* the text of the message box changes (the box is disabled while sending)
typeMessage(text) ==
  /\ isAuthenticated /\ ~isSending
  /\ text # messageInput
  /\ messageInput' = text
  /\ UNCHANGED <<loading, showAuthModal, authTimeout, attempts, isSending, streamingContent,
                 handler, titles>>
  /\ UNCHANGED <<adapterVars, authVars, relayVars, clientVars>>

\* onClick={() => setCurrentConversation(conversation)}; left (bookkeeping,
\* not program state) records that the user went from the conversation of the
\* running call to another one while the answer was streaming
conversationClicked(k) ==
  /\ k \in 1..Len(chatConversations)
  /\ chatConversations[k].id # currentConversation.id
  /\ currentConversation' = chatConversations[k]
  /\ effectDue' = TRUE
  /\ handler' = IF handler.pc = "stream" /\ currentConversation.id = handler.conv
                THEN [handler EXCEPT !.left = TRUE] ELSE handler
  /\ UNCHANGED <<user, isAuthenticated, chatConversations, chatMessages, errorBanner, pendingSets,
                 channels, cleanup, nextChan, events, msgFetches, convFetches, newChats,
                 userActions>>
  /\ UNCHANGED <<loading, showAuthModal, authTimeout, attempts, messageInput, isSending,
                 streamingContent, titles>>
  /\ UNCHANGED <<adapterVars, authVars, relayVars>>

\* the effect on [currentConversation] and what it starts, up to
\* getMessages(currentConversation.id).then(setMessages)
historyLoaded ==
  /\ effectDue
  /\ effectDue' = FALSE
  /\ chatMessages' = getMessages(currentConversation.id)
  /\ UNCHANGED <<user, isAuthenticated, chatConversations, currentConversation, errorBanner,
                 pendingSets, channels, cleanup, nextChan, events, msgFetches, convFetches,
                 newChats, userActions>>
  /\ UNCHANGED <<appVars, adapterVars, authVars, relayVars>>

\* handleSendMessage up to await sendMessage(..., 'user'); the send button and
\* the message box are disabled while isSending.  A run has one call
handleSendMessage ==
  /\ ~isSending /\ handler.pc = "none"
  /\ Trim(messageInput) # <<>> /\ currentConversation # NoConversation /\ isAuthenticated
  /\ isSending' = TRUE
  /\ errorBanner' = ""
  /\ sendMessageCall(currentConversation.id, Trim(messageInput), "user")
  /\ handler' = Frame(currentConversation.id, Trim(messageInput), chatMessages = <<>>, Len(sends'))
  /\ UNCHANGED <<loading, showAuthModal, authTimeout, attempts, messageInput, streamingContent,
                 titles>>
  /\ UNCHANGED <<adapterVars, authVars, storeVars, pendingSets, effectDue, channels, cleanup,
                 nextChan, events, msgFetches, convFetches, newChats, userActions,
                 conversations, messages, clock, accessVars>>

\* the request streamAIResponse makes is on its way: stream is what it yields
StreamRequested(frame, stream) ==
  [frame EXCEPT !.pc = "stream", !.stream = stream, !.requested = TRUE]

\* await sendMessage(..., 'user') has settled: the catch and finally blocks,
\* or setMessageInput('') and then the title update of a first message or
\* the model request
userSendSettled ==
  /\ handler.pc = "userSend"
  /\ sends[handler.send].state # "awaiting"
  /\ IF sends[handler.send].state = "threw"
     THEN /\ errorBanner' = SendFailedMessage
          /\ isSending' = FALSE
          /\ streamingContent' = <<>>
          /\ handler' = [handler EXCEPT !.pc = "done"]
          /\ UNCHANGED messageInput
     ELSE /\ messageInput' = <<>>
          /\ IF handler.first
             THEN handler' = [handler EXCEPT !.pc = "title"]
             ELSE \E stream \in Streams : handler' = StreamRequested(handler, stream)
          /\ UNCHANGED <<errorBanner, isSending, streamingContent>>
  /\ UNCHANGED <<loading, showAuthModal, authTimeout, attempts, titles>>
  /\ UNCHANGED <<adapterVars, authVars, relayVars, storeVars, pendingSets, effectDue, channels,
                 cleanup, nextChan, events, msgFetches, convFetches, newChats, userActions>>

\* the title update has settled: with the updated row (then the store gets
\* it as list entry and as current conversation) or with data null; then the
\* model request
titleUpdateSettled ==
  /\ handler.pc = "title"
  /\ \/ /\ titles' = [titles EXCEPT ![handler.conv] = generateTitle(handler.text)]
        /\ LET updatedConv == Conversation(handler.conv, conversations[handler.conv])
           IN  /\ chatConversations' =
                    [k \in 1..Len(chatConversations) |->
                       IF chatConversations[k].id = updatedConv.id THEN updatedConv
                       ELSE chatConversations[k]]
               /\ currentConversation' = updatedConv
        /\ effectDue' = TRUE
     \/ UNCHANGED <<titles, chatConversations, currentConversation, effectDue>>
  /\ \E stream \in Streams : handler' = StreamRequested(handler, stream)
  /\ UNCHANGED <<loading, showAuthModal, authTimeout, attempts, messageInput, isSending,
                 streamingContent>>
  /\ UNCHANGED <<adapterVars, authVars, relayVars, user, isAuthenticated, chatMessages,
                 errorBanner, pendingSets, channels, cleanup, nextChan, events, msgFetches,
                 convFetches, newChats, userActions>>

\* a handleSendMessage that sends the answer to the conversation that is open
\* when the stream ends
streamYields_ToOpenConversation ==
  /\ handler.pc = "stream" /\ handler.stream # <<>>
  /\ LET chunk == Head(handler.stream)
         finalContent == IF chunk.done THEN chunk.content ELSE handler.finalContent
         loopEnds == chunk.error # NoError \/ Len(handler.stream) = 1
         received == [handler EXCEPT !.seen = Append(handler.seen, chunk),
                                     !.finalContent = finalContent]
     IN  /\ errorBanner' = IF chunk.error # NoError THEN AIFailedMessage ELSE errorBanner
         /\ IF ~loopEnds
            THEN /\ streamingContent' = IF chunk.done THEN <<>> ELSE chunk.content
                 /\ handler' = [received EXCEPT !.stream = Tail(handler.stream)]
                 /\ UNCHANGED <<isSending, sends>>
            ELSE IF finalContent # <<>>
            THEN /\ streamingContent' = IF chunk.done THEN <<>> ELSE chunk.content
                 /\ sendMessageCall(currentConversation.id, finalContent, "assistant")
                 /\ handler' = [received EXCEPT !.pc = "aiSend", !.stream = <<>>,
                                                !.answer = Len(sends')]
                 /\ UNCHANGED isSending
            ELSE /\ streamingContent' = <<>>
                 /\ isSending' = FALSE
                 /\ handler' = [received EXCEPT !.pc = "done", !.stream = <<>>]
                 /\ UNCHANGED sends
  /\ UNCHANGED <<loading, showAuthModal, authTimeout, attempts, messageInput, titles>>
  /\ UNCHANGED <<adapterVars, authVars, storeVars, pendingSets, effectDue, channels, cleanup,
                 nextChan, events, msgFetches, convFetches, newChats, userActions,
                 conversations, messages, clock, accessVars>>

\* one iteration of for await (const chunk of stream); when the loop ends
\* (break on an error, or the generator returns after its last snapshot)
\* the statements after it: the assistant send, or the finally block.
\* seen (bookkeeping, not program state) keeps the snapshots received
streamYields ==
  /\ handler.pc = "stream" /\ handler.stream # <<>>
  /\ LET chunk == Head(handler.stream)
         finalContent == IF chunk.done THEN chunk.content ELSE handler.finalContent
         loopEnds == chunk.error # NoError \/ Len(handler.stream) = 1
         received == [handler EXCEPT !.seen = Append(handler.seen, chunk),
                                     !.finalContent = finalContent]
     IN  /\ errorBanner' = IF chunk.error # NoError THEN AIFailedMessage ELSE errorBanner
         /\ IF ~loopEnds
            THEN /\ streamingContent' = IF chunk.done THEN <<>> ELSE chunk.content
                 /\ handler' = [received EXCEPT !.stream = Tail(handler.stream)]
                 /\ UNCHANGED <<isSending, sends>>
            ELSE IF finalContent # <<>>
            THEN /\ streamingContent' = IF chunk.done THEN <<>> ELSE chunk.content
                 /\ sendMessageCall(handler.conv, finalContent, "assistant")
                 /\ handler' = [received EXCEPT !.pc = "aiSend", !.stream = <<>>,
                                                !.answer = Len(sends')]
                 /\ UNCHANGED isSending
            ELSE /\ streamingContent' = <<>>
                 /\ isSending' = FALSE
                 /\ handler' = [received EXCEPT !.pc = "done", !.stream = <<>>]
                 /\ UNCHANGED sends
  /\ UNCHANGED <<loading, showAuthModal, authTimeout, attempts, messageInput, titles>>
  /\ UNCHANGED <<adapterVars, authVars, storeVars, pendingSets, effectDue, channels, cleanup,
                 nextChan, events, msgFetches, convFetches, newChats, userActions,
                 conversations, messages, clock, accessVars>>

\* await sendMessage(..., 'assistant') has settled: the catch block if it
\* threw, then the finally block
assistantSendSettled ==
  /\ handler.pc = "aiSend"
  /\ sends[handler.answer].state # "awaiting"
  /\ errorBanner' = IF sends[handler.answer].state = "threw" THEN SendFailedMessage ELSE errorBanner
  /\ isSending' = FALSE
  /\ streamingContent' = <<>>
  /\ handler' = [handler EXCEPT !.pc = "done"]
  /\ UNCHANGED <<loading, showAuthModal, authTimeout, attempts, messageInput, titles>>
  /\ UNCHANGED <<adapterVars, authVars, relayVars, storeVars, pendingSets, effectDue, channels,
                 cleanup, nextChan, events, msgFetches, convFetches, newChats, userActions>>

\* title: 'New Chat'
NewChatTitle == <<"N", "e", "w", " ", "C", "h", "a", "t">>

\* an earlier message of the second conversation
EarlierMessage ==
  [id |-> 0, conversation_id |-> "c2", content |-> <<"b">>, role |-> "user", created_at |-> 0]

\* the user is signed in and has two conversations, a new one and one with a
\* message; none is open
SendInit ==
  /\ AdapterIdle
  /\ AuthIdle
  /\ conversations = [c \in ConvIds |-> IF c = "c2" THEN EarlierMessage.content ELSE NoMessage]
  /\ owner = [c \in ConvIds |-> "u1"]
  /\ messages = {EarlierMessage}
  /\ clock = 0
  /\ sends = <<>>
  /\ creates = <<>>
  /\ session = "u1"
  /\ user = "u1"
  /\ isAuthenticated = TRUE
  /\ chatConversations = getConversations("u1")
  /\ currentConversation = NoConversation
  /\ chatMessages = <<>>
  /\ errorBanner = ""
  /\ pendingSets = <<>>
  /\ effectDue = FALSE
  /\ channels = {}
  /\ cleanup = 0
  /\ nextChan = 0
  /\ events = {}
  /\ msgFetches = <<>>
  /\ convFetches = <<>>
  /\ newChats = <<>>
  /\ userActions = 0
  /\ loading = FALSE
  /\ showAuthModal = FALSE
  /\ authTimeout = 0
  /\ attempts = <<>>
  /\ messageInput = <<>>
  /\ isSending = FALSE
  /\ streamingContent = <<>>
  /\ handler = NoHandler
  /\ titles = [c \in ConvIds |-> NewChatTitle]

SendNext ==
  \/ \E text \in InputTexts : typeMessage(text)
  \/ \E k \in 1..Len(ConvOrder) : conversationClicked(k)
  \/ historyLoaded
  \/ handleSendMessage
  \/ \E i \in 1..Len(sends) : messagePromiseSettles(i)
  \/ \E i \in 1..Len(sends) : updatePromiseSettles(i)
  \/ \E i \in 1..Len(sends) : sendMessageReturns(i)
  \/ userSendSettled
  \/ titleUpdateSettled
  \/ streamYields
  \/ assistantSendSettled

SendSpec == SendInit /\ [][SendNext]_vars

\* the first four space-separated words of a text, the whole text when it
\* has fewer
FirstFourWords(text) == JoinWithSpace(Slice(SplitOnSpace(text), 4))

\* C21: when the first message of a conversation is sent (the message list
\* is empty at send time) and the title is updated, the title becomes the
\* first four space-separated words of the message text
C21_TitleIsFirstFourWords ==
  [][titles' # titles =>
       /\ handler.first
       /\ titles'[handler.conv] = FirstFourWords(handler.text)]_vars

\* what the code does instead: the title is generateTitle of the sent text,
\* which ends with '...' when the text has four words or more
C21_TitleIsGenerateTitle ==
  [][titles' # titles =>
       /\ handler.first
       /\ Len(SplitOnSpace(handler.text)) < 4 =>
            titles'[handler.conv] = FirstFourWords(handler.text)
       /\ Len(SplitOnSpace(handler.text)) >= 4 =>
            titles'[handler.conv] = FirstFourWords(handler.text) \o Ellipsis]_vars

\* C23: after the user has switched from the conversation a message was
\* sent in to another one, no snapshot of that message's stream is shown as
\* streaming content
C23_NotObservedAfterSwitch ==
  [][(/\ handler.pc = "stream"
      /\ handler.left
      /\ handler'.seen # handler.seen
      /\ currentConversation.id # handler.conv) =>
       streamingContent' = <<>>]_vars

\* the stream of the running call ended with the catch block's snapshot
ErrorEnded ==
  /\ handler.seen # <<>>
  /\ handler.seen[Len(handler.seen)].error # NoError

\* the transcript of the call's conversation has the fallback text as an
\* assistant message
FallbackInTranscript ==
  \E m \in messages :
    /\ m.conversation_id = handler.conv
    /\ m.role = "assistant"
    /\ m.content = FallbackContent

\* C22 as stated: when the stream ends with an error snapshot the call ends
\* normally with the error banner set and the fallback text in the
\* transcript
C22_FallbackAlwaysStored ==
  (handler.pc = "done" /\ ErrorEnded) =>
    /\ ~isSending
    /\ errorBanner # ""
    /\ FallbackInTranscript

\* C22: when the stream ends with an error snapshot, the error banner is set
\* and the fallback text is sent to the call's conversation as an assistant
\* message; the call ends normally with a banner, and the fallback text is in
\* the transcript whenever the store has accepted the row
C22_FallbackSent ==
  /\ (handler.pc = "aiSend" /\ ErrorEnded) =>
       /\ errorBanner = AIFailedMessage
       /\ sends[handler.answer].conv = handler.conv
       /\ sends[handler.answer].role = "assistant"
       /\ sends[handler.answer].content = FallbackContent
  /\ (handler.pc = "done" /\ ErrorEnded) =>
       /\ ~isSending
       /\ handler.answer # 0
       /\ errorBanner = IF sends[handler.answer].state = "threw"
                        THEN SendFailedMessage ELSE AIFailedMessage
       /\ sends[handler.answer].insert = "ok" <=> FallbackInTranscript

C22_Witness ==
  /\ handler.pc = "done" /\ ErrorEnded
  /\ Len(handler.seen) > 1
  /\ errorBanner = AIFailedMessage
  /\ FallbackInTranscript

\* the assistant rows sendMessage was called with
AssistantSends == {i \in 1..Len(sends) : sends[i].role = "assistant"}

\* C26: a call persists at most one assistant message, only after its user
\* message was persisted and after a done=true snapshot was received, with
\* that snapshot's content and in the conversation of the user message; when
\* the user-message send fails no model request is made and no assistant
\* message is persisted
C26_OneAnswerAfterDone ==
  /\ Cardinality(AssistantSends) <= 1
  /\ \A m \in messages : m.role = "assistant" => \E i \in AssistantSends : sends[i].row = m.id
  /\ \A i \in AssistantSends :
       /\ i = handler.answer
       /\ sends[handler.send].state = "returned"
       /\ \E m \in messages :
            /\ m.id = sends[handler.send].row
            /\ m.role = "user"
            /\ m.conversation_id = handler.conv
            /\ m.content = handler.text
       /\ \E k \in 1..Len(handler.seen) :
            handler.seen[k].done /\ handler.seen[k].content = sends[i].content
       /\ sends[i].conv = sends[handler.send].conv
  /\ (handler.pc = "done" /\ sends[handler.send].state = "threw") =>
       /\ ~handler.requested
       /\ AssistantSends = {}

\* an answer was stored in the conversation of the user message after the
\* user had opened another conversation
C26_Witness ==
  /\ handler.pc = "done"
  /\ currentConversation.id # handler.conv
  /\ \E m \in messages :
       /\ m.role = "assistant"
       /\ m.conversation_id = handler.conv
       /\ m.content = <<"a", "a">>

\* a user-message send that failed
C26_FailedSendWitness ==
  handler.pc = "done" /\ sends[handler.send].state = "threw" /\ ~handler.requested

====
